---- MODULE Spec2Model ----
(***************************************************************************)
(* GMX Trading MCP Server (src/src/gmx_server.py): the process-wide wallet *)
(* configuration, the contract table, the per-chain connection cache, and  *)
(* the tool handlers that build order records and compute trade figures.   *)
(*                                                                         *)
(* A handler runs to completion without suspending (no handler awaits), so *)
(* each handler is one action.  `call' holds the arguments of the handler  *)
(* that ran last and `result' holds what it returned; Deliver hands the    *)
(* response to the client and frees the server for the next request.       *)
(*                                                                         *)
(* Text that the code case-converts (market symbols, token symbols, side   *)
(* strings) is a sequence of one-character strings.  Numbers are exact     *)
(* rationals <<numerator, denominator>> with a positive denominator.       *)
(***************************************************************************)
EXTENDS Integers, Sequences, FiniteSets, TLC

VARIABLES
    config_data,      \* [private_key, user_wallet_address] of config_data
    gmx_contracts,    \* the contract table returned by load_gmx_contracts()
    w3_instances,     \* chains that have a cached Web3 instance
    WEB3_AVAILABLE,   \* whether `import web3' succeeded when the module loaded
    call,             \* the handler invocation whose response is in flight
    result            \* the value that invocation returned

vars == <<config_data, gmx_contracts, w3_instances, WEB3_AVAILABLE, call, result>>

-----------------------------------------------------------------------------
(* Python values *)

\* Python's None, for the values that are None or a plain string.
None == "None"

\* `not v' for v that is None or a string.
Falsy(v) == v = None \/ v = ""

\* {} : a dict with no keys.
EmptyDict == [k \in {} |-> k]

\* d.get(k, default)
Get(d, k, default) == IF k \in DOMAIN d THEN d[k] ELSE default

-----------------------------------------------------------------------------
(* str.upper() and str.lower() on sequences of characters *)

LowerLetters == <<"a","b","c","d","e","f","g","h","i","j","k","l","m",
                  "n","o","p","q","r","s","t","u","v","w","x","y","z">>
UpperLetters == <<"A","B","C","D","E","F","G","H","I","J","K","L","M",
                  "N","O","P","Q","R","S","T","U","V","W","X","Y","Z">>

UpperChar(c) ==
    IF \E i \in 1..Len(LowerLetters) : LowerLetters[i] = c
    THEN UpperLetters[CHOOSE i \in 1..Len(LowerLetters) : LowerLetters[i] = c]
    ELSE c

LowerChar(c) ==
    IF \E i \in 1..Len(UpperLetters) : UpperLetters[i] = c
    THEN LowerLetters[CHOOSE i \in 1..Len(UpperLetters) : UpperLetters[i] = c]
    ELSE c

Upper(s) == [i \in 1..Len(s) |-> UpperChar(s[i])]
Lower(s) == [i \in 1..Len(s) |-> LowerChar(s[i])]

-----------------------------------------------------------------------------
(* Exact rational arithmetic standing for Python float arithmetic *)

Abs(i) == IF i < 0 THEN -i ELSE i

RECURSIVE GCD(_, _)
GCD(a, b) == IF b = 0 THEN a ELSE GCD(b, a % b)

\* the rational n/d in lowest terms with a positive denominator (d # 0)
Rat(n, d) ==
    LET g == GCD(Abs(n), Abs(d))
        s == IF d < 0 THEN -1 ELSE 1
    IN  <<(s * n) \div g, (s * d) \div g>>

R(i) == <<i, 1>>

\* the least common denominator of two rationals in lowest terms
LCD(x, y) == (x[2] \div GCD(x[2], y[2])) * y[2]

\* sums and products are formed over reduced terms, which keeps every
\* intermediate integer small
RAdd(x, y) == Rat(x[1] * (LCD(x, y) \div x[2]) + y[1] * (LCD(x, y) \div y[2]), LCD(x, y))
RSub(x, y) == Rat(x[1] * (LCD(x, y) \div x[2]) - y[1] * (LCD(x, y) \div y[2]), LCD(x, y))
RMul(x, y) == Rat((x[1] \div GCD(Abs(x[1]), y[2])) * (y[1] \div GCD(Abs(y[1]), x[2])), (x[2] \div GCD(Abs(y[1]), x[2])) * (y[2] \div GCD(Abs(x[1]), y[2])))
RLt(x, y)  == RSub(x, y)[1] < 0
RLe(x, y)  == RSub(x, y)[1] <= 0
RIsZero(x) == x[1] = 0
RAbs(x)    == <<Abs(x[1]), x[2]>>

\* x / y for y # 0; Python raises ZeroDivisionError when y = 0, which every
\* caller below tests with RIsZero before it divides.
RDiv(x, y) == RMul(x, Rat(y[2], y[1]))

\* the integer nearest to n/d (d > 0), ties going to the even integer
RoundHalfEven(n, d) ==
    LET q == n \div d
        r == n % d
    IN  IF 2 * r < d THEN q
        ELSE IF 2 * r > d THEN q + 1
        ELSE IF q % 2 = 0 THEN q ELSE q + 1

\* the fraction left once the whole units and the tenths of x are taken away
BelowTenths(x) == ((x[1] % x[2]) * 10) % x[2]

\* round(x, 2), digit by digit: whole units, tenths, then the hundredths
\* rounded half to even
Round2(x) == RAdd(RAdd(R(x[1] \div x[2]), Rat(((x[1] % x[2]) * 10) \div x[2], 10)), Rat(RoundHalfEven(BelowTenths(x) * 10, x[2]), 100))

\* the number printed by f"{x:.1f}"
Format1f(x) == RAdd(R(x[1] \div x[2]), Rat(RoundHalfEven((x[1] % x[2]) * 10, x[2]), 10))

-----------------------------------------------------------------------------
(* Module-level configuration *)

\* the chains config_data['rpcs'] has an RPC URL for
rpcs == {"arbitrum", "arbitrum_sepolia", "avalanche"}

\* the table load_gmx_contracts() returns when config/gmx_contracts.yaml
\* does not exist
DefaultContracts ==
    [arbitrum |->
        [datastore |-> "0xFD70de6b91282D8017aA4E741e9Ae325CAb992d8",
         syntheticsreader |-> "0xf60becbba223EEA9495Da3f606753867eC10d139",
         exchangerouter |-> "0x69C527fC77291722b52649E45c838e41be8Bf5d5",
         tokens |-> (<<"W","E","T","H">> :> "0x82aF49447D8a07e3bd95BD0d56f35241523fBab1"
                  @@ <<"U","S","D","C">> :> "0xaf88d065e77c8cC2239327C5EDb3A432268e5831"
                  @@ <<"A","R","B">>     :> "0x912CE59144191C1204E64559FE8253a0e49E6548")]]

\* a table as config/gmx_contracts.yaml can supply it: the sections of the
\* default table and a markets section, on two chains
FileContracts ==
    [arbitrum |->
        [exchangerouter |-> "0xRouterArb",
         tokens  |-> (<<"W","E","T","H">> :> "0xWethArb"
                   @@ <<"U","S","D","C">> :> "0xUsdcArb"
                   @@ <<"D","O","G","E">> :> "0xDogeArb"),
         markets |-> (<<"E","T","H","_","U","S","D">> :> "0xEthUsdArb"
                   @@ <<"B","T","C","_","U","S","D">> :> "0xBtcUsdArb")],
     arbitrum_sepolia |->
        [exchangerouter |-> "0xRouterSep",
         tokens  |-> (<<"U","S","D","C">> :> "0xUsdcSep"),
         markets |-> (<<"E","T","H","_","U","S","D">> :> "0xEthUsdSep")]]

ContractTables == {DefaultContracts, FileContracts}

-----------------------------------------------------------------------------
(* What a handler returns *)

NoCall   == [op |-> "none"]
NoResult == [status |-> "idle"]
NoRecord == [type |-> "none"]

\* a returned record
Ok(rec) == [status |-> "ok", error |-> "none", raised |-> FALSE, record |-> rec]

\* a returned "Error ..." string: no record is returned
Err(code) == [status |-> "error", error |-> code, raised |-> FALSE, record |-> NoRecord]

\* an exception that leaves the handler
Raise(code) == [status |-> "error", error |-> code, raised |-> TRUE, record |-> NoRecord]

-----------------------------------------------------------------------------
(* Inputs the handlers are called with *)

MaxTime == 0

\* int(time.time())
Timestamps == 0..MaxTime

\* a string argument of setup_wallet: omitted (None), empty, or a value
KeyInputs     == {None, "", "0xKEY"}
AddressInputs == {None, "", "0xADDR"}

\* what the process can find in PRIVATE_KEY / WALLET_ADDRESS when it starts
EnvKeys      == {None, "0xENVKEY"}
EnvAddresses == {None, "0xENVADDR"}

ChainInputs == {"arbitrum", "arbitrum_sepolia", "fantom"}

\* debug_mode as the caller passes it, or not at all
DebugInputs == {"omitted", "True", "False"}

MarketInputs == {<<"E","T","H">>, <<"e","t","h">>, <<"B","t","c">>, <<"D","O","G","E">>}
TokenInputs  == {<<"w","e","t","h">>, <<"U","S","D","C">>, <<"D","O","G","E">>}
SideInputs   == {<<"l","o","n","g">>, <<"L","o","n","g">>, <<"s","h","o","r","t">>}
OrderKeyInputs == {"k1", "0x123"}

SizeInputs       == {R(-100), R(0), R(100), R(100000)}
CollateralInputs == {R(-20), R(0), R(20)}
AmountInputs     == {R(0), R(5)}
PercentInputs    == {R(50), R(100)}
SlippageInputs   == {Rat(1, 2)}
PriceInputs      == {R(-2000), R(0), R(2000), R(2100)}

\* Python's None where a number is expected
NoneNumber == << >>

CollateralTokenInputs == {<<"U","S","D","C">>, <<"u","s","d","c">>}
PlanMarketInputs == {<<"E","T","H">>, <<"e","t","h">>}

\* the value a handler sees for debug_mode: the argument, or the default of
\* its signature when the caller passes none
Bind(arg, default) == IF arg = "omitted" THEN default ELSE arg = "True"

-----------------------------------------------------------------------------
(* Wallet configuration *)

\* variant: the arguments stored whether or not they were supplied
setup_wallet_config_overwrite(cfg, private_key, wallet_address) ==
    [private_key |-> private_key, user_wallet_address |-> wallet_address]

\* setup_wallet: the assignments of its first two `if' statements
setup_wallet_config(cfg, private_key, wallet_address) ==
    [private_key |-> IF ~Falsy(private_key) THEN private_key ELSE cfg.private_key,
     user_wallet_address |-> IF ~Falsy(wallet_address) THEN wallet_address
                             ELSE cfg.user_wallet_address]

\* setup_wallet: what it returns once config_data holds cfg; save_ok is
\* whether writing config/gmx_config.yaml succeeds
setup_wallet_result(cfg, chain, save_ok) ==
    IF Falsy(cfg.private_key) \/ Falsy(cfg.user_wallet_address)
    THEN Err("wallet_must_be_provided")
    ELSE IF ~save_ok
    THEN Err("setup_failed")
    ELSE Ok([type |-> "wallet_configured",
             address |-> cfg.user_wallet_address,
             chain |-> chain])

setup_wallet ==
    /\ call = NoCall
    /\ \E private_key \in KeyInputs, wallet_address \in AddressInputs,
          chain \in ChainInputs, save_ok \in BOOLEAN :
          LET cfg == setup_wallet_config(config_data, private_key, wallet_address)
          IN  /\ config_data' = cfg
              /\ call' = [op |-> "setup_wallet", private_key |-> private_key,
                          wallet_address |-> wallet_address, chain |-> chain]
              /\ result' = setup_wallet_result(cfg, chain, save_ok)
    /\ UNCHANGED <<gmx_contracts, w3_instances, WEB3_AVAILABLE>>

get_wallet_info_result(cfg) ==
    IF Falsy(cfg.user_wallet_address)
    THEN Err("no_wallet_configured")
    ELSE Ok([type |-> "wallet_info",
             address |-> cfg.user_wallet_address,
             private_key |-> IF ~Falsy(cfg.private_key) THEN "***configured***"
                             ELSE "Not set",
             status |-> "Ready for GMX trading"])

get_wallet_info ==
    /\ call = NoCall
    /\ call' = [op |-> "get_wallet_info"]
    /\ result' = get_wallet_info_result(config_data)
    /\ UNCHANGED <<config_data, gmx_contracts, w3_instances, WEB3_AVAILABLE>>

-----------------------------------------------------------------------------
(* Web3 connections *)

\* get_web3(chain): TRUE when it raises "No RPC URL configured"
get_web3_raises(available, instances, chain) ==
    available /\ chain \notin instances /\ chain \notin rpcs

\* get_web3(chain): the cache after the call
get_web3_instances(available, instances, chain) ==
    IF available /\ chain \notin instances /\ chain \in rpcs
    THEN instances \cup {chain}
    ELSE instances

-----------------------------------------------------------------------------
(* Order-producing handlers *)

\* the default of debug_mode in each handler's signature
create_swap_order_debug_mode == TRUE
\* variant: open_position's signature defaulting to live mode
open_position_debug_mode_off == FALSE
open_position_debug_mode     == TRUE
close_position_debug_mode    == TRUE
add_liquidity_debug_mode     == TRUE
remove_liquidity_debug_mode  == TRUE
cancel_order_debug_mode      == TRUE

\* 15 if chain in ["arbitrum", "arbitrum_sepolia"] else 2
add_liquidity_gas_fee(chain) ==
    IF chain \in {"arbitrum", "arbitrum_sepolia"} THEN R(15) ELSE R(2)

remove_liquidity_gas_fee(chain) ==
    IF chain \in {"arbitrum", "arbitrum_sepolia"} THEN R(15) ELSE R(2)

swap_order(from_token, to_token, amount, from_token_address, to_token_address, slippage_pct, chain, exchange_router, debug_mode, ts) ==
    [type |-> "swap",
     from_token |-> Upper(from_token),
     to_token |-> Upper(to_token),
     amount |-> amount,
     from_token_address |-> from_token_address,
     to_token_address |-> to_token_address,
     slippage_pct |-> slippage_pct,
     chain |-> chain,
     exchange_router |-> exchange_router,
     debug_mode |-> debug_mode,
     status |-> IF debug_mode THEN "created" ELSE "pending",
     timestamp |-> ts,
     note |-> IF debug_mode THEN "Order created in debug mode - not executed"
              ELSE "Order would be submitted to blockchain"]

create_swap_order_result(cfg, table, available, instances, from_token, to_token, amount, chain, slippage_pct, debug_mode, ts) ==
    IF Falsy(cfg.private_key) \/ Falsy(cfg.user_wallet_address)
    THEN Err("wallet_not_configured")
    ELSE IF get_web3_raises(available, instances, chain) THEN Err("no_rpc_url")
    ELSE
      LET contracts == Get(table, chain, EmptyDict)
          tokens == Get(contracts, "tokens", EmptyDict)
          from_token_address == Get(tokens, Upper(from_token), None)
          to_token_address == Get(tokens, Upper(to_token), None)
      IN  IF Falsy(from_token_address) \/ Falsy(to_token_address)
          THEN Err("token_not_found")
          ELSE Ok(swap_order(from_token, to_token, amount, from_token_address,
                             to_token_address, slippage_pct, chain,
                             Get(contracts, "exchangerouter", None), debug_mode, ts))

\* get_web3 runs only once the wallet test has passed
create_swap_order_instances(cfg, available, instances, chain) ==
    IF Falsy(cfg.private_key) \/ Falsy(cfg.user_wallet_address) THEN instances
    ELSE get_web3_instances(available, instances, chain)

create_swap_order ==
    /\ call = NoCall
    /\ \E from_token \in TokenInputs, to_token \in TokenInputs, amount \in AmountInputs,
          chain \in ChainInputs, slippage_pct \in SlippageInputs,
          debug \in DebugInputs, ts \in Timestamps :
          /\ call' = [op |-> "create_swap_order", from_token |-> from_token,
                      to_token |-> to_token, amount |-> amount, chain |-> chain,
                      slippage_pct |-> slippage_pct, debug_mode |-> debug]
          /\ result' = create_swap_order_result(config_data, gmx_contracts,
                          WEB3_AVAILABLE, w3_instances, from_token, to_token, amount,
                          chain, slippage_pct,
                          Bind(debug, create_swap_order_debug_mode), ts)
          /\ w3_instances' = create_swap_order_instances(config_data, WEB3_AVAILABLE,
                                                         w3_instances, chain)
    /\ UNCHANGED <<config_data, gmx_contracts, WEB3_AVAILABLE>>

position_order(market, side, size_usd, collateral_token, collateral_amount, leverage, market_address, chain, debug_mode, ts) ==
    [type |-> "increase_position",
     market |-> Upper(market),
     side |-> Upper(side),
     size_usd |-> size_usd,
     collateral_token |-> Upper(collateral_token),
     collateral_amount |-> collateral_amount,
     leverage |-> Format1f(leverage),
     market_address |-> market_address,
     chain |-> chain,
     debug_mode |-> debug_mode,
     status |-> IF debug_mode THEN "created" ELSE "pending",
     estimated_fees |-> [opening_fee |-> RMul(size_usd, Rat(6, 10000)),
                         price_impact |-> RMul(size_usd, Rat(1, 10000)),
                         total_fees |-> RMul(size_usd, Rat(7, 10000))],
     timestamp |-> ts,
     note |-> IF debug_mode THEN "Position created in debug mode - not executed"
              ELSE "Position would be submitted to blockchain"]

\* variant: a zero collateral guarded with a leverage of 0 instead of raising
open_position_result_guarded(cfg, table, market, side, size_usd, collateral_token, collateral_amount, chain, debug_mode, ts) ==
    IF Falsy(cfg.private_key) \/ Falsy(cfg.user_wallet_address)
    THEN Err("wallet_not_configured")
    ELSE
      LET contracts == Get(table, chain, EmptyDict)
          market_key == Upper(market) \o <<"_","U","S","D">>
          market_address == Get(Get(contracts, "markets", EmptyDict), market_key, None)
      IN  IF Falsy(market_address) THEN Err("market_not_found")
          ELSE Ok(position_order(market, side, size_usd, collateral_token,
                                 collateral_amount,
                                 IF RIsZero(collateral_amount) THEN R(0)
                                 ELSE RDiv(size_usd, RMul(collateral_amount, R(1))),
                                 market_address, chain, debug_mode, ts))

open_position_result(cfg, table, market, side, size_usd, collateral_token, collateral_amount, chain, debug_mode, ts) ==
    IF Falsy(cfg.private_key) \/ Falsy(cfg.user_wallet_address)
    THEN Err("wallet_not_configured")
    ELSE
      LET contracts == Get(table, chain, EmptyDict)
          market_key == Upper(market) \o <<"_","U","S","D">>
          market_address == Get(Get(contracts, "markets", EmptyDict), market_key, None)
      IN  IF Falsy(market_address) THEN Err("market_not_found")
          ELSE IF RIsZero(RMul(collateral_amount, R(1))) THEN Err("division_by_zero")
          ELSE Ok(position_order(market, side, size_usd, collateral_token,
                                 collateral_amount,
                                 RDiv(size_usd, RMul(collateral_amount, R(1))),
                                 market_address, chain, debug_mode, ts))

open_position ==
    /\ call = NoCall
    /\ \E market \in MarketInputs, side \in SideInputs, size_usd \in SizeInputs,
          collateral_token \in CollateralTokenInputs, collateral_amount \in CollateralInputs,
          chain \in ChainInputs, debug \in DebugInputs, ts \in Timestamps :
          /\ call' = [op |-> "open_position", market |-> market, side |-> side,
                      size_usd |-> size_usd, collateral_token |-> collateral_token,
                      collateral_amount |-> collateral_amount, chain |-> chain,
                      debug_mode |-> debug]
          /\ result' = open_position_result(config_data, gmx_contracts, market, side,
                          size_usd, collateral_token, collateral_amount, chain,
                          Bind(debug, open_position_debug_mode), ts)
    /\ UNCHANGED <<config_data, gmx_contracts, w3_instances, WEB3_AVAILABLE>>

close_order(market, side, size_pct, market_address, chain, debug_mode, ts) ==
    [type |-> "decrease_position",
     market |-> Upper(market),
     side |-> Upper(side),
     size_pct |-> size_pct,
     market_address |-> market_address,
     chain |-> chain,
     debug_mode |-> debug_mode,
     status |-> IF debug_mode THEN "created" ELSE "pending",
     timestamp |-> ts,
     note |-> IF debug_mode THEN "Close order created in debug mode - would close size_pct% of position"
              ELSE "Close order would be submitted to blockchain"]

\* variant: the market key built from the symbol as passed, not upper-cased
close_position_result_no_upper(cfg, table, market, side, size_pct, chain, debug_mode, ts) ==
    IF Falsy(cfg.private_key) \/ Falsy(cfg.user_wallet_address)
    THEN Err("wallet_not_configured")
    ELSE
      LET contracts == Get(table, chain, EmptyDict)
          market_key == market \o <<"_","U","S","D">>
          market_address == Get(Get(contracts, "markets", EmptyDict), market_key, None)
      IN  IF Falsy(market_address) THEN Err("market_not_found")
          ELSE Ok(close_order(market, side, size_pct, market_address, chain,
                              debug_mode, ts))

close_position_result(cfg, table, market, side, size_pct, chain, debug_mode, ts) ==
    IF Falsy(cfg.private_key) \/ Falsy(cfg.user_wallet_address)
    THEN Err("wallet_not_configured")
    ELSE
      LET contracts == Get(table, chain, EmptyDict)
          market_key == Upper(market) \o <<"_","U","S","D">>
          market_address == Get(Get(contracts, "markets", EmptyDict), market_key, None)
      IN  IF Falsy(market_address) THEN Err("market_not_found")
          ELSE Ok(close_order(market, side, size_pct, market_address, chain,
                              debug_mode, ts))

close_position ==
    /\ call = NoCall
    /\ \E market \in MarketInputs, side \in SideInputs, size_pct \in PercentInputs,
          chain \in ChainInputs, debug \in DebugInputs, ts \in Timestamps :
          /\ call' = [op |-> "close_position", market |-> market, side |-> side,
                      size_pct |-> size_pct, chain |-> chain, debug_mode |-> debug]
          /\ result' = close_position_result(config_data, gmx_contracts, market, side,
                          size_pct, chain, Bind(debug, close_position_debug_mode), ts)
    /\ UNCHANGED <<config_data, gmx_contracts, w3_instances, WEB3_AVAILABLE>>

liquidity_order(market, long_token_amount, short_token_amount, market_address, chain, debug_mode, ts) ==
    LET total_value == RAdd(long_token_amount, short_token_amount)
    IN  [type |-> "add_liquidity",
         market |-> Upper(market),
         long_token_amount |-> long_token_amount,
         short_token_amount |-> short_token_amount,
         total_value_usd |-> total_value,
         market_address |-> market_address,
         chain |-> chain,
         debug_mode |-> debug_mode,
         status |-> IF debug_mode THEN "created" ELSE "pending",
         estimated_fees |-> [deposit_fee |-> RMul(total_value, Rat(1, 10000)),
                             gas_fee |-> add_liquidity_gas_fee(chain)],
         timestamp |-> ts,
         note |-> IF debug_mode THEN "Liquidity order created in debug mode - not executed"
                  ELSE "Liquidity order would be submitted to blockchain"]

\* variant: the order built although the market lookup found nothing
add_liquidity_result_no_market_check(cfg, table, market, long_token_amount, short_token_amount, chain, debug_mode, ts) ==
    IF Falsy(cfg.private_key) \/ Falsy(cfg.user_wallet_address)
    THEN Err("wallet_not_configured")
    ELSE
      LET contracts == Get(table, chain, EmptyDict)
          market_key == Upper(market) \o <<"_","U","S","D">>
          market_address == Get(Get(contracts, "markets", EmptyDict), market_key, None)
      IN  Ok(liquidity_order(market, long_token_amount, short_token_amount,
                             market_address, chain, debug_mode, ts))

add_liquidity_result(cfg, table, market, long_token_amount, short_token_amount, chain, debug_mode, ts) ==
    IF Falsy(cfg.private_key) \/ Falsy(cfg.user_wallet_address)
    THEN Err("wallet_not_configured")
    ELSE
      LET contracts == Get(table, chain, EmptyDict)
          market_key == Upper(market) \o <<"_","U","S","D">>
          market_address == Get(Get(contracts, "markets", EmptyDict), market_key, None)
      IN  IF Falsy(market_address) THEN Err("market_not_found")
          ELSE Ok(liquidity_order(market, long_token_amount, short_token_amount,
                                  market_address, chain, debug_mode, ts))

add_liquidity ==
    /\ call = NoCall
    /\ \E market \in MarketInputs, long_token_amount \in AmountInputs,
          short_token_amount \in AmountInputs, chain \in ChainInputs,
          debug \in DebugInputs, ts \in Timestamps :
          /\ call' = [op |-> "add_liquidity", market |-> market,
                      long_token_amount |-> long_token_amount,
                      short_token_amount |-> short_token_amount,
                      chain |-> chain, debug_mode |-> debug]
          /\ result' = add_liquidity_result(config_data, gmx_contracts, market,
                          long_token_amount, short_token_amount, chain,
                          Bind(debug, add_liquidity_debug_mode), ts)
    /\ UNCHANGED <<config_data, gmx_contracts, w3_instances, WEB3_AVAILABLE>>

withdrawal_order(market, gm_token_amount, market_address, chain, debug_mode, ts) ==
    [type |-> "remove_liquidity",
     market |-> Upper(market),
     gm_token_amount |-> gm_token_amount,
     market_address |-> market_address,
     chain |-> chain,
     debug_mode |-> debug_mode,
     status |-> IF debug_mode THEN "created" ELSE "pending",
     estimated_fees |-> [withdrawal_fee |-> RMul(gm_token_amount, Rat(1, 10000)),
                         gas_fee |-> remove_liquidity_gas_fee(chain)],
     timestamp |-> ts,
     note |-> IF debug_mode THEN "Withdrawal order created in debug mode - not executed"
              ELSE "Withdrawal order would be submitted to blockchain"]

remove_liquidity_result(cfg, table, market, gm_token_amount, chain, debug_mode, ts) ==
    IF Falsy(cfg.private_key) \/ Falsy(cfg.user_wallet_address)
    THEN Err("wallet_not_configured")
    ELSE
      LET contracts == Get(table, chain, EmptyDict)
          market_key == Upper(market) \o <<"_","U","S","D">>
          market_address == Get(Get(contracts, "markets", EmptyDict), market_key, None)
      IN  IF Falsy(market_address) THEN Err("market_not_found")
          ELSE Ok(withdrawal_order(market, gm_token_amount, market_address, chain,
                                   debug_mode, ts))

remove_liquidity ==
    /\ call = NoCall
    /\ \E market \in MarketInputs, gm_token_amount \in AmountInputs,
          chain \in ChainInputs, debug \in DebugInputs, ts \in Timestamps :
          /\ call' = [op |-> "remove_liquidity", market |-> market,
                      gm_token_amount |-> gm_token_amount, chain |-> chain,
                      debug_mode |-> debug]
          /\ result' = remove_liquidity_result(config_data, gmx_contracts, market,
                          gm_token_amount, chain,
                          Bind(debug, remove_liquidity_debug_mode), ts)
    /\ UNCHANGED <<config_data, gmx_contracts, w3_instances, WEB3_AVAILABLE>>

\* variant: the status written as a constant instead of from debug_mode
cancel_tx_always_created(order_key, chain, debug_mode, ts) ==
    [type |-> "cancel_order",
     order_key |-> order_key,
     chain |-> chain,
     debug_mode |-> debug_mode,
     status |-> "created",
     timestamp |-> ts,
     note |-> IF debug_mode THEN "Cancel order created in debug mode - not executed"
              ELSE "Cancel transaction would be submitted to blockchain"]

cancel_tx(order_key, chain, debug_mode, ts) ==
    [type |-> "cancel_order",
     order_key |-> order_key,
     chain |-> chain,
     debug_mode |-> debug_mode,
     status |-> IF debug_mode THEN "created" ELSE "pending",
     timestamp |-> ts,
     note |-> IF debug_mode THEN "Cancel order created in debug mode - not executed"
              ELSE "Cancel transaction would be submitted to blockchain"]

\* variant: cancel_order testing the wallet address only, as get_wallet_info does
cancel_order_result_address_only(cfg, order_key, chain, debug_mode, ts) ==
    IF Falsy(cfg.user_wallet_address)
    THEN Err("wallet_not_configured")
    ELSE Ok(cancel_tx(order_key, chain, debug_mode, ts))

cancel_order_result(cfg, order_key, chain, debug_mode, ts) ==
    IF Falsy(cfg.private_key) \/ Falsy(cfg.user_wallet_address)
    THEN Err("wallet_not_configured")
    ELSE Ok(cancel_tx(order_key, chain, debug_mode, ts))

cancel_order ==
    /\ call = NoCall
    /\ \E order_key \in OrderKeyInputs, chain \in ChainInputs,
          debug \in DebugInputs, ts \in Timestamps :
          /\ call' = [op |-> "cancel_order", order_key |-> order_key,
                      chain |-> chain, debug_mode |-> debug]
          /\ result' = cancel_order_result(config_data, order_key, chain,
                          Bind(debug, cancel_order_debug_mode), ts)
    /\ UNCHANGED <<config_data, gmx_contracts, w3_instances, WEB3_AVAILABLE>>

-----------------------------------------------------------------------------
(* Calculators *)

\* variant: every direction other than "short" read as a long position
is_long_of_unless_short(direction) == Lower(direction) # <<"s","h","o","r","t">>

\* direction.lower() == "long"
is_long_of(direction) == Lower(direction) = <<"l","o","n","g">>

\* 15 if chain in ["arbitrum", "arbitrum_sepolia"] else 2
estimate_gas_cost(chain) ==
    IF chain \in {"arbitrum", "arbitrum_sepolia"} THEN R(15) ELSE R(2)

\* variant: the opening fee taken as 0.6% instead of 0.06%
estimate_opening_fee_tenfold(size_usd) == RMul(size_usd, Rat(6, 1000))

\* size_usd * 0.0006
estimate_opening_fee(size_usd) == RMul(size_usd, Rat(6, 10000))

\* variant: the low rate still applied at exactly 100000
estimate_price_impact_inclusive(size_usd) ==
    IF RLe(size_usd, R(100000)) THEN RMul(size_usd, Rat(1, 10000))
    ELSE RMul(size_usd, Rat(5, 10000))

\* size_usd * 0.0001 if size_usd < 100000 else size_usd * 0.0005
estimate_price_impact(size_usd) ==
    IF RLt(size_usd, R(100000)) THEN RMul(size_usd, Rat(1, 10000))
    ELSE RMul(size_usd, Rat(5, 10000))

\* variant: the total formed from the three rounded amounts
estimate_total_cost_of_rounded(opening_fee, price_impact, gas_cost) ==
    RAdd(RAdd(Round2(opening_fee), Round2(price_impact)), Round2(gas_cost))

\* round(opening_fee + price_impact + gas_cost, 2)
estimate_total_cost(opening_fee, price_impact, gas_cost) ==
    Round2(RAdd(RAdd(opening_fee, price_impact), gas_cost))

estimate(market, size_usd, is_long, chain) ==
    LET opening_fee == estimate_opening_fee(size_usd)
        price_impact == estimate_price_impact(size_usd)
        gas_cost == estimate_gas_cost(chain)
    IN  [type |-> "estimate",
         market |-> market \o <<"/","U","S","D">>,
         direction |-> IF is_long THEN "LONG" ELSE "SHORT",
         position_size_usd |-> size_usd,
         chain |-> chain,
         estimated_costs |->
            [opening_fee_usd |-> Round2(opening_fee),
             estimated_price_impact_usd |-> Round2(price_impact),
             estimated_gas_cost_usd |-> Round2(gas_cost),
             total_estimated_cost_usd |->
                 estimate_total_cost(opening_fee, price_impact, gas_cost)],
         collateral_requirements |->
            [minimum_collateral_usd |-> Round2(RMul(size_usd, Rat(1, 100))),
             recommended_collateral_usd |-> Round2(RMul(size_usd, Rat(1, 10))),
             max_leverage |-> "100x",
             recommended_leverage |-> "10x"]]

\* estimate_trading_costs called with a size and a chain of the given sets
estimate_trading_costs_call(Sizes, Chains) ==
    /\ call = NoCall
    /\ \E market \in PlanMarketInputs, size_usd \in Sizes,
          is_long \in BOOLEAN, chain \in Chains :
          /\ call' = [op |-> "estimate_trading_costs", market |-> market,
                      size_usd |-> size_usd, is_long |-> is_long, chain |-> chain]
          /\ result' = Ok(estimate(market, size_usd, is_long, chain))
    /\ UNCHANGED <<config_data, gmx_contracts, w3_instances, WEB3_AVAILABLE>>

estimate_trading_costs == estimate_trading_costs_call(SizeInputs, ChainInputs)

\* `if entry_price:' and `if liquidation_price': None and 0 are false
FalsyNumber(x) == x = NoneNumber \/ RIsZero(x)

\* variant: the collateral share added for a long and subtracted for a short
plan_liquidation_price_swapped(is_long, entry_price, size_usd, collateral_usd) ==
    IF ~FalsyNumber(entry_price)
    THEN IF is_long
         THEN RMul(entry_price,
                   RAdd(R(1), RMul(RDiv(collateral_usd, size_usd), Rat(9, 10))))
         ELSE RMul(entry_price,
                   RSub(R(1), RMul(RDiv(collateral_usd, size_usd), Rat(9, 10))))
    ELSE NoneNumber

\* create_trading_plan: the liquidation price, once collateral_usd / size_usd
\* is known not to raise
plan_liquidation_price(is_long, entry_price, size_usd, collateral_usd) ==
    IF ~FalsyNumber(entry_price)
    THEN IF is_long
         THEN RMul(entry_price,
                   RSub(R(1), RMul(RDiv(collateral_usd, size_usd), Rat(9, 10))))
         ELSE RMul(entry_price,
                   RAdd(R(1), RMul(RDiv(collateral_usd, size_usd), Rat(9, 10))))
    ELSE NoneNumber

\* variant: the leverage boundaries written with >= instead of >
plan_leverage_risk_inclusive(leverage) ==
    IF RLe(R(20), leverage) THEN "HIGH"
    ELSE IF RLe(R(10), leverage) THEN "MEDIUM" ELSE "LOW"

\* "HIGH" if leverage > 20 else "MEDIUM" if leverage > 10 else "LOW"
plan_leverage_risk(leverage) ==
    IF RLt(R(20), leverage) THEN "HIGH"
    ELSE IF RLt(R(10), leverage) THEN "MEDIUM" ELSE "LOW"

\* "HIGH" if size_usd > 50000 else "MEDIUM" if size_usd > 10000 else "LOW"
plan_position_size_risk(size_usd) ==
    IF RLt(R(50000), size_usd) THEN "HIGH"
    ELSE IF RLt(R(10000), size_usd) THEN "MEDIUM" ELSE "LOW"

plan(market, direction, size_usd, collateral_usd, entry_price, stop_loss, take_profit, leverage, liquidation_price) ==
    [type |-> "trading_plan",
     trading_plan |->
        [market |-> market \o <<"/","U","S","D">>,
         direction |-> Upper(direction),
         position_size_usd |-> size_usd,
         collateral_usd |-> collateral_usd,
         leverage |-> Format1f(leverage),
         entry_price |-> entry_price,
         stop_loss |-> stop_loss,
         take_profit |-> take_profit,
         estimated_liquidation_price |->
             IF ~FalsyNumber(liquidation_price) THEN Round2(liquidation_price)
             ELSE NoneNumber],
     risk_analysis |->
        [leverage_risk |-> plan_leverage_risk(leverage),
         position_size_risk |-> plan_position_size_risk(size_usd),
         collateral_ratio |->
             Format1f(RMul(RDiv(collateral_usd, size_usd), R(100)))]]

\* create_trading_plan has no try block: a ZeroDivisionError leaves the handler
create_trading_plan_result(market, direction, size_usd, collateral_usd, entry_price, stop_loss, take_profit) ==
    IF RIsZero(collateral_usd) THEN Raise("division_by_zero")
    ELSE IF RIsZero(size_usd) THEN Raise("division_by_zero")
    ELSE
      LET is_long == is_long_of(direction)
          leverage == RDiv(size_usd, collateral_usd)
      IN  Ok(plan(market, direction, size_usd, collateral_usd, entry_price,
                  stop_loss, take_profit, leverage,
                  plan_liquidation_price(is_long, entry_price, size_usd,
                                         collateral_usd)))

\* create_trading_plan called with numbers of the given sets
create_trading_plan_call(Sides, Sizes, Collaterals, Entries) ==
    /\ call = NoCall
    /\ \E market \in PlanMarketInputs, direction \in Sides,
          size_usd \in Sizes, collateral_usd \in Collaterals,
          entry_price \in Entries :
          /\ call' = [op |-> "create_trading_plan", market |-> market,
                      direction |-> direction, size_usd |-> size_usd,
                      collateral_usd |-> collateral_usd, entry_price |-> entry_price,
                      stop_loss |-> NoneNumber, take_profit |-> NoneNumber]
          /\ result' = create_trading_plan_result(market, direction, size_usd,
                          collateral_usd, entry_price, NoneNumber, NoneNumber)
    /\ UNCHANGED <<config_data, gmx_contracts, w3_instances, WEB3_AVAILABLE>>

create_trading_plan ==
    create_trading_plan_call(SideInputs, SizeInputs, CollateralInputs, PriceInputs \cup {NoneNumber})

liquidation_threshold == Rat(9, 10)

\* variant: the boundaries written with <= instead of <
risk_level_of_inclusive(distance_to_liquidation) ==
    IF RLe(distance_to_liquidation, R(5)) THEN "CRITICAL"
    ELSE IF RLe(distance_to_liquidation, R(15)) THEN "HIGH"
    ELSE IF RLe(distance_to_liquidation, R(30)) THEN "MEDIUM"
    ELSE "LOW"

risk_level_of(distance_to_liquidation) ==
    IF RLt(distance_to_liquidation, R(5)) THEN "CRITICAL"
    ELSE IF RLt(distance_to_liquidation, R(15)) THEN "HIGH"
    ELSE IF RLt(distance_to_liquidation, R(30)) THEN "MEDIUM"
    ELSE "LOW"

\* variant: the price change of a long used for both sides
simulate_price_change_pct_unsigned(is_long, entry_price, current_price) ==
    RDiv(RSub(current_price, entry_price), entry_price)

\* simulate_pnl: price_change_pct (entry_price # 0)
simulate_price_change_pct(is_long, entry_price, current_price) ==
    IF is_long THEN RDiv(RSub(current_price, entry_price), entry_price)
    ELSE RDiv(RSub(entry_price, current_price), entry_price)

\* simulate_pnl: pnl_usd
simulate_pnl_usd(position_size_usd, price_change_pct) ==
    RMul(position_size_usd, price_change_pct)

\* variant: the percentage taken of the position size
simulate_pnl_pct_of_size(pnl_usd, position_size_usd, collateral_usd) ==
    RMul(RDiv(pnl_usd, position_size_usd), R(100))

\* simulate_pnl: pnl_pct (collateral_usd # 0)
simulate_pnl_pct(pnl_usd, position_size_usd, collateral_usd) ==
    RMul(RDiv(pnl_usd, collateral_usd), R(100))

\* simulate_pnl: liquidation_price (leverage # 0)
simulate_liquidation_price(is_long, entry_price, leverage) ==
    IF is_long
    THEN RMul(entry_price, RSub(R(1), RDiv(liquidation_threshold, leverage)))
    ELSE RMul(entry_price, RAdd(R(1), RDiv(liquidation_threshold, leverage)))

\* simulate_pnl: distance_to_liquidation (current_price # 0)
simulate_distance_to_liquidation(current_price, liquidation_price) ==
    RMul(RDiv(RAbs(RSub(current_price, liquidation_price)), current_price), R(100))

simulation(market, side, entry_price, current_price, position_size_usd, collateral_usd, ts) ==
    LET is_long == is_long_of(side)
        price_change_pct == simulate_price_change_pct(is_long, entry_price, current_price)
        pnl_usd == simulate_pnl_usd(position_size_usd, price_change_pct)
        pnl_pct == simulate_pnl_pct(pnl_usd, position_size_usd, collateral_usd)
        leverage == RDiv(position_size_usd, collateral_usd)
        liquidation_price == simulate_liquidation_price(is_long, entry_price, leverage)
        distance_to_liquidation ==
            simulate_distance_to_liquidation(current_price, liquidation_price)
    IN  [type |-> "simulation",
         market |-> market,
         position |-> [side |-> Upper(side),
                       entry_price |-> entry_price,
                       current_price |-> current_price,
                       position_size_usd |-> position_size_usd,
                       collateral_usd |-> collateral_usd,
                       leverage |-> Format1f(leverage)],
         pnl |-> [unrealized_pnl_usd |-> Round2(pnl_usd),
                  unrealized_pnl_pct |-> Round2(pnl_pct),
                  price_change_pct |-> Round2(RMul(price_change_pct, R(100)))],
         risk |-> [liquidation_price |-> Round2(liquidation_price),
                   distance_to_liquidation_pct |-> Round2(distance_to_liquidation),
                   risk_level |-> risk_level_of(distance_to_liquidation)],
         timestamp |-> ts]

\* simulate_pnl: each division that can raise, in the order the code runs them;
\* the except clause turns the exception into a returned error string
simulate_pnl_result(market, side, entry_price, current_price, position_size_usd, collateral_usd, ts) ==
    IF RIsZero(entry_price) THEN Err("division_by_zero")
    ELSE IF RIsZero(collateral_usd) THEN Err("division_by_zero")
    ELSE IF RIsZero(RDiv(position_size_usd, collateral_usd)) THEN Err("division_by_zero")
    ELSE IF RIsZero(current_price) THEN Err("division_by_zero")
    ELSE Ok(simulation(market, side, entry_price, current_price,
                       position_size_usd, collateral_usd, ts))

\* simulate_pnl called with numbers of the given sets
simulate_pnl_call(Sides, Entries, Currents, Sizes, Collaterals) ==
    /\ call = NoCall
    /\ \E market \in PlanMarketInputs, side \in Sides,
          entry_price \in Entries, current_price \in Currents,
          position_size_usd \in Sizes, collateral_usd \in Collaterals,
          ts \in Timestamps :
          /\ call' = [op |-> "simulate_pnl", market |-> market, side |-> side,
                      entry_price |-> entry_price, current_price |-> current_price,
                      position_size_usd |-> position_size_usd,
                      collateral_usd |-> collateral_usd]
          /\ result' = simulate_pnl_result(market, side, entry_price, current_price,
                          position_size_usd, collateral_usd, ts)
    /\ UNCHANGED <<config_data, gmx_contracts, w3_instances, WEB3_AVAILABLE>>

simulate_pnl ==
    simulate_pnl_call(SideInputs, PriceInputs, PriceInputs, SizeInputs, CollateralInputs)

-----------------------------------------------------------------------------
(* The calculators of the simplified server, src/src/gmx_server_simple.py *)

\* 15 if chain == "arbitrum" else 2
simple_estimate_gas_cost(chain) == IF chain = "arbitrum" THEN R(15) ELSE R(2)

simple_estimate(market, size_usd, is_long, chain) ==
    LET opening_fee == RMul(size_usd, Rat(6, 10000))
        price_impact == IF RLt(size_usd, R(100000))
                        THEN RMul(size_usd, Rat(1, 10000))
                        ELSE RMul(size_usd, Rat(5, 10000))
        gas_cost == simple_estimate_gas_cost(chain)
        min_collateral == RMul(size_usd, Rat(1, 100))
        recommended_collateral == RMul(size_usd, Rat(1, 10))
    IN  [type |-> "estimate",
         market |-> market \o <<"/","U","S","D">>,
         direction |-> IF is_long THEN "LONG" ELSE "SHORT",
         position_size_usd |-> size_usd,
         chain |-> chain,
         estimated_costs |->
            [opening_fee_usd |-> Round2(opening_fee),
             estimated_price_impact_usd |-> Round2(price_impact),
             estimated_gas_cost_usd |-> Round2(gas_cost),
             total_estimated_cost_usd |->
                 Round2(RAdd(RAdd(opening_fee, price_impact), gas_cost))],
         collateral_requirements |->
            [minimum_collateral_usd |-> Round2(min_collateral),
             recommended_collateral_usd |-> Round2(recommended_collateral),
             max_leverage |-> "100x",
             recommended_leverage |-> "10x"],
         note |-> "These are rough estimates. Actual costs may vary based on market conditions."]

\* the simplified server's estimate_trading_costs
simple_estimate_trading_costs_call(Sizes, Chains) ==
    /\ call = NoCall
    /\ \E market \in PlanMarketInputs, size_usd \in Sizes,
          is_long \in BOOLEAN, chain \in Chains :
          /\ call' = [op |-> "simple.estimate_trading_costs", market |-> market,
                      size_usd |-> size_usd, is_long |-> is_long, chain |-> chain]
          /\ result' = Ok(simple_estimate(market, size_usd, is_long, chain))
    /\ UNCHANGED <<config_data, gmx_contracts, w3_instances, WEB3_AVAILABLE>>

simple_estimate_trading_costs ==
    simple_estimate_trading_costs_call(SizeInputs, ChainInputs)

simple_plan_liquidation_price(is_long, entry_price, size_usd, collateral_usd) ==
    IF is_long
    THEN IF ~FalsyNumber(entry_price)
         THEN RMul(entry_price,
                   RSub(R(1), RMul(RDiv(collateral_usd, size_usd), Rat(9, 10))))
         ELSE NoneNumber
    ELSE IF ~FalsyNumber(entry_price)
         THEN RMul(entry_price,
                   RAdd(R(1), RMul(RDiv(collateral_usd, size_usd), Rat(9, 10))))
         ELSE NoneNumber

simple_plan(market, direction, size_usd, collateral_usd, entry_price, stop_loss, take_profit, leverage, liquidation_price) ==
    [type |-> "trading_plan",
     trading_plan |->
        [market |-> market \o <<"/","U","S","D">>,
         direction |-> Upper(direction),
         position_size_usd |-> size_usd,
         collateral_usd |-> collateral_usd,
         leverage |-> Format1f(leverage),
         entry_price |-> entry_price,
         stop_loss |-> stop_loss,
         take_profit |-> take_profit,
         estimated_liquidation_price |->
             IF ~FalsyNumber(liquidation_price) THEN Round2(liquidation_price)
             ELSE NoneNumber],
     risk_analysis |->
        [leverage_risk |-> IF RLt(R(20), leverage) THEN "HIGH"
                           ELSE IF RLt(R(10), leverage) THEN "MEDIUM" ELSE "LOW",
         position_size_risk |-> IF RLt(R(50000), size_usd) THEN "HIGH"
                                ELSE IF RLt(R(10000), size_usd) THEN "MEDIUM"
                                ELSE "LOW",
         collateral_ratio |->
             Format1f(RMul(RDiv(collateral_usd, size_usd), R(100)))],
     warnings |-> <<"High leverage increases liquidation risk",
                    "Always monitor positions actively",
                    "Consider market volatility and funding rates",
                    "Have exit strategy planned before entering">>]

simple_create_trading_plan_result(market, direction, size_usd, collateral_usd, entry_price, stop_loss, take_profit) ==
    IF RIsZero(collateral_usd) THEN Raise("division_by_zero")
    ELSE IF RIsZero(size_usd) THEN Raise("division_by_zero")
    ELSE
      LET is_long == is_long_of(direction)
          leverage == RDiv(size_usd, collateral_usd)
      IN  Ok(simple_plan(market, direction, size_usd, collateral_usd, entry_price,
                         stop_loss, take_profit, leverage,
                         simple_plan_liquidation_price(is_long, entry_price,
                                                       size_usd, collateral_usd)))

\* the simplified server's create_trading_plan
simple_create_trading_plan_call(Sides, Sizes, Collaterals, Entries) ==
    /\ call = NoCall
    /\ \E market \in PlanMarketInputs, direction \in Sides,
          size_usd \in Sizes, collateral_usd \in Collaterals,
          entry_price \in Entries :
          /\ call' = [op |-> "simple.create_trading_plan", market |-> market,
                      direction |-> direction, size_usd |-> size_usd,
                      collateral_usd |-> collateral_usd, entry_price |-> entry_price,
                      stop_loss |-> NoneNumber, take_profit |-> NoneNumber]
          /\ result' = simple_create_trading_plan_result(market, direction, size_usd,
                          collateral_usd, entry_price, NoneNumber, NoneNumber)
    /\ UNCHANGED <<config_data, gmx_contracts, w3_instances, WEB3_AVAILABLE>>

-----------------------------------------------------------------------------
(* The server *)

\* the response reaches the client; the server takes the next request
Deliver ==
    /\ call # NoCall
    /\ call' = NoCall
    /\ result' = NoResult
    /\ UNCHANGED <<config_data, gmx_contracts, w3_instances, WEB3_AVAILABLE>>

Init ==
    /\ config_data \in [private_key : EnvKeys, user_wallet_address : EnvAddresses]
    /\ gmx_contracts \in ContractTables
    /\ w3_instances = {}
    /\ WEB3_AVAILABLE \in BOOLEAN
    /\ call = NoCall
    /\ result = NoResult

Next ==
    \/ setup_wallet
    \/ get_wallet_info
    \/ estimate_trading_costs
    \/ simple_estimate_trading_costs
    \/ create_trading_plan
    \/ simulate_pnl
    \/ create_swap_order
    \/ open_position
    \/ close_position
    \/ add_liquidity
    \/ remove_liquidity
    \/ cancel_order
    \/ Deliver

Spec == Init /\ [][Next]_vars

-----------------------------------------------------------------------------
(* The calculators alone, over grids of valid trade figures.  The            *)
(* calculators read no configuration, so the grids are explored from the     *)
(* same initial states without the wallet and order handlers.                *)

GridChains == ChainInputs \cup {"avalanche"}

\* direction strings: case variants of "long", "short", and strings that are
\* neither
GridSides == SideInputs \cup {<<"b","u","y">>, << >>, <<"l","o","n","g"," ">>}

\* sizes around the price-impact threshold, and sizes whose fees have more
\* than two decimals
FeeSizes == {R(8), R(1000), Rat(24690, 100), R(99999), R(100000), R(100001)}

\* sizes on both sides of 10000 and 50000; size / collateral on both sides of
\* 10 and 20
PlanSizes       == {R(9), R(100), R(101), R(1000), R(10000), R(10001), R(50000), R(50001)}
PlanCollaterals == {R(1), R(5), R(10), R(20), R(100)}
PlanEntries     == {NoneNumber, R(1), R(2000)}

\* with size 90 and collateral 10 (leverage 9) a long entered at 22610 is
\* liquidated at 20349, which is 5%, 15% and 30% below 21420, 23940 and 29070
PnlEntries     == {R(100), R(2000), R(22610)}
PnlCurrents    == {R(1), R(2000), R(2100), R(21419), R(21420), R(23939), R(23940),
                   R(29069), R(29070)}
PnlSizes       == {R(90), R(100), R(1000)}
PnlCollaterals == {R(1), R(10), R(20)}

estimate_trading_costs_grid == estimate_trading_costs_call(FeeSizes, GridChains)

simple_estimate_trading_costs_grid ==
    simple_estimate_trading_costs_call(FeeSizes, GridChains)

create_trading_plan_grid ==
    create_trading_plan_call(GridSides, PlanSizes, PlanCollaterals, PlanEntries)

simple_create_trading_plan_grid ==
    simple_create_trading_plan_call(GridSides, PlanSizes, PlanCollaterals, PlanEntries)

simulate_pnl_grid ==
    simulate_pnl_call(GridSides, PnlEntries, PnlCurrents, PnlSizes, PnlCollaterals)

NextCalc ==
    \/ estimate_trading_costs_grid
    \/ simple_estimate_trading_costs_grid
    \/ create_trading_plan_grid
    \/ simple_create_trading_plan_grid
    \/ simulate_pnl_grid
    \/ Deliver

SpecCalc == Init /\ [][NextCalc]_vars

-----------------------------------------------------------------------------
(* Properties *)

OrderOps == {"create_swap_order", "open_position", "close_position",
             "add_liquidity", "remove_liquidity", "cancel_order"}

MarketOps == {"open_position", "close_position", "add_liquidity", "remove_liquidity"}

LeverageOps == {"create_trading_plan", "simulate_pnl", "open_position"}

WalletMissing == Falsy(config_data.private_key) \/ Falsy(config_data.user_wallet_address)

\* the collateral argument of the call in flight, for the three handlers that
\* divide the size by it
CollateralOf(c) ==
    IF c.op = "open_position" THEN c.collateral_amount ELSE c.collateral_usd

SizeOf(c) ==
    IF c.op = "simulate_pnl" THEN c.position_size_usd ELSE c.size_usd

\* the leverage a returned plan, simulation or increase order reports
LeverageOf(c, rec) ==
    IF c.op = "create_trading_plan" THEN rec.trading_plan.leverage
    ELSE IF c.op = "simulate_pnl" THEN rec.position.leverage
    ELSE rec.leverage

\* the address the contract table holds for the upper-cased market symbol of
\* the call in flight on its chain, None when it holds none
LookedUpMarket ==
    LET chainEntry == IF call.chain \in DOMAIN gmx_contracts
                      THEN gmx_contracts[call.chain] ELSE EmptyDict
        markets == IF "markets" \in DOMAIN chainEntry
                   THEN chainEntry["markets"] ELSE EmptyDict
        key == Upper(call.market) \o <<"_","U","S","D">>
    IN  IF key \in DOMAIN markets THEN markets[key] ELSE None

\* C1: an order record returned by any of the six order-producing handlers has
\* status "created" exactly when debug_mode is true and "pending" otherwise;
\* no other status is produced, and the record's debug_mode is the one passed.
C1_StatusIffDebug ==
    (call.op \in OrderOps /\ result.status = "ok") =>
        /\ result.record.status \in {"created", "pending"}
        /\ (result.record.status = "created") <=> result.record.debug_mode
        /\ call.debug_mode = "True" => result.record.status = "created"
        /\ call.debug_mode = "False" => result.record.status = "pending"

C1_Witness ==
    /\ call.op = "cancel_order"
    /\ call.debug_mode = "False"
    /\ result.status = "ok"
    /\ result.record.status = "pending"

\* C2: a step that runs an order-producing handler with debug_mode=True leaves
\* the wallet configuration, the contract table and the connection cache
\* (w3_instances) unchanged.
C2_DebugCallHasNoSideEffect ==
    [][(call'.op \in OrderOps /\ call'.debug_mode = "True") =>
           /\ config_data' = config_data
           /\ gmx_contracts' = gmx_contracts
           /\ w3_instances' = w3_instances]_vars

\* C3: an order-producing call that passes no debug_mode yields, when it
\* returns a record, a record with debug_mode true and status "created".
C3_DebugDefaultsToTrue ==
    (call.op \in OrderOps /\ call.debug_mode = "omitted" /\ result.status = "ok") =>
        /\ result.record.debug_mode = TRUE
        /\ result.record.status = "created"

C3_Witness ==
    /\ call.op = "open_position"
    /\ call.debug_mode = "omitted"
    /\ result.status = "ok"
    /\ result.record.type = "increase_position"

\* C4: while the private key or the wallet address is missing, every
\* order-producing handler fails with the wallet-not-configured error and
\* returns no record, whatever its arguments and debug_mode.
C4_WalletGate ==
    (call.op \in OrderOps /\ WalletMissing) =>
        /\ result.status = "error"
        /\ result.error = "wallet_not_configured"
        /\ result.record = NoRecord

\* cancel_order('k1', debug_mode=True) after a setup_wallet call that stored a
\* key but no address
C4_Witness ==
    /\ call.op = "cancel_order"
    /\ call.order_key = "k1"
    /\ call.debug_mode = "True"
    /\ config_data.private_key = "0xKEY"
    /\ Falsy(config_data.user_wallet_address)
    /\ result.error = "wallet_not_configured"

\* C5: with the wallet configured, open_position, close_position,
\* add_liquidity and remove_liquidity fail with market-not-found, returning no
\* record, exactly when the table holds no address for the upper-cased market
\* symbol on the chain; when it holds one and the numeric inputs are valid, the
\* returned record carries that address.
C5_MarketLookup ==
    (call.op \in MarketOps /\ ~WalletMissing) =>
        /\ (result.error = "market_not_found") <=> Falsy(LookedUpMarket)
        /\ Falsy(LookedUpMarket) => result.status = "error" /\ result.record = NoRecord
        /\ ( /\ ~Falsy(LookedUpMarket)
             /\ call.op = "open_position" =>
                    RLt(R(0), call.size_usd) /\ RLt(R(0), call.collateral_amount) )
           => /\ result.status = "ok"
              /\ result.record.market_address = LookedUpMarket

\* a market the table knows on another chain only, asked for in lower case
C5_Witness ==
    /\ call.op = "open_position"
    /\ ~WalletMissing
    /\ gmx_contracts = FileContracts
    /\ call.market = <<"B","t","c">>
    /\ call.chain = "arbitrum_sepolia"
    /\ result.error = "market_not_found"

\* C6: with the built-in default contract table and a configured wallet,
\* open_position('ETH','long',100,'USDC',20,'arbitrum_sepolia',True) returns an
\* increase_position record with status "created", and
\* close_position('ETH','long',50,'arbitrum_sepolia',True) returns a
\* decrease_position record for 50%.
C6_DocumentedExample ==
    (gmx_contracts = DefaultContracts /\ ~WalletMissing) =>
        /\ call = [op |-> "open_position", market |-> <<"E","T","H">>,
                   side |-> <<"l","o","n","g">>, size_usd |-> R(100),
                   collateral_token |-> <<"U","S","D","C">>,
                   collateral_amount |-> R(20), chain |-> "arbitrum_sepolia",
                   debug_mode |-> "True"]
           => /\ result.status = "ok"
              /\ result.record.type = "increase_position"
              /\ result.record.status = "created"
        /\ call = [op |-> "close_position", market |-> <<"E","T","H">>,
                   side |-> <<"l","o","n","g">>, size_pct |-> R(50),
                   chain |-> "arbitrum_sepolia", debug_mode |-> "True"]
           => /\ result.status = "ok"
              /\ result.record.type = "decrease_position"
              /\ result.record.size_pct = R(50)

\* C7: simulate_pnl fails and returns no PnL record whenever entry_price <= 0,
\* current_price <= 0 or collateral_usd <= 0.
C7_PnlRejectsNonPositive ==
    ( /\ call.op = "simulate_pnl"
      /\ \/ RLe(call.entry_price, R(0))
         \/ RLe(call.current_price, R(0))
         \/ RLe(call.collateral_usd, R(0)) )
    => result.status = "error" /\ result.record = NoRecord

\* C8 as stated: create_trading_plan, simulate_pnl and open_position fail with
\* a division-by-zero error, returning no record, whenever the collateral is 0.
C8_ZeroCollateralDivisionError ==
    (call.op \in LeverageOps /\ RIsZero(CollateralOf(call))) =>
        /\ result.status = "error"
        /\ result.error = "division_by_zero"
        /\ result.record = NoRecord

\* C8 amended: with a collateral of 0 none of the three handlers returns a
\* record; create_trading_plan and simulate_pnl fail with a division-by-zero
\* error, and so does open_position once its wallet test and its market lookup
\* have passed (they come first and fail with their own errors).
C8_ZeroCollateralNoRecord ==
    (call.op \in LeverageOps /\ RIsZero(CollateralOf(call))) =>
        /\ result.status = "error"
        /\ result.record = NoRecord
        /\ call.op # "open_position" => result.error = "division_by_zero"
        /\ (call.op = "open_position" /\ WalletMissing)
              => result.error = "wallet_not_configured"
        /\ (call.op = "open_position" /\ ~WalletMissing /\ Falsy(LookedUpMarket))
              => result.error = "market_not_found"
        /\ (call.op = "open_position" /\ ~WalletMissing /\ ~Falsy(LookedUpMarket))
              => result.error = "division_by_zero"

C8_Witness ==
    /\ call.op = "open_position"
    /\ RIsZero(call.collateral_amount)
    /\ ~WalletMissing
    /\ ~Falsy(LookedUpMarket)
    /\ result.error = "division_by_zero"

\* C9: every leverage reported in a trading plan, a PnL simulation or an
\* increase order is strictly positive, and a request with a non-positive size
\* or collateral is rejected instead of producing a record.
C9_LeveragePositive ==
    call.op \in LeverageOps =>
        /\ result.status = "ok" => RLt(R(0), LeverageOf(call, result.record))
        /\ (RLe(SizeOf(call), R(0)) \/ RLe(CollateralOf(call), R(0)))
              => result.status = "error"

CoreOps == OrderOps \cup {"estimate_trading_costs", "create_trading_plan", "simulate_pnl"}

\* the record type each handler builds
RecordTypeOf(op) ==
    CASE op = "create_swap_order" -> "swap"
      [] op = "open_position" -> "increase_position"
      [] op = "close_position" -> "decrease_position"
      [] op = "add_liquidity" -> "add_liquidity"
      [] op = "remove_liquidity" -> "remove_liquidity"
      [] op = "cancel_order" -> "cancel_order"
      [] op = "estimate_trading_costs" -> "estimate"
      [] op = "create_trading_plan" -> "trading_plan"
      [] op = "simulate_pnl" -> "simulation"

\* the token address the contract table holds for an upper-cased token symbol
\* on the chain of the call in flight, None when it holds none
LookedUpToken(token) ==
    LET chainEntry == IF call.chain \in DOMAIN gmx_contracts
                      THEN gmx_contracts[call.chain] ELSE EmptyDict
        tokens == IF "tokens" \in DOMAIN chainEntry
                  THEN chainEntry["tokens"] ELSE EmptyDict
    IN  IF Upper(token) \in DOMAIN tokens THEN tokens[Upper(token)] ELSE None

\* a step of the call in flight fails: the wallet test, a lookup, a connection
\* or a division
StepFails ==
    \/ call.op \in OrderOps /\ WalletMissing
    \/ call.op \in MarketOps /\ Falsy(LookedUpMarket)
    \/ /\ call.op = "create_swap_order"
       /\ \/ Falsy(LookedUpToken(call.from_token))
          \/ Falsy(LookedUpToken(call.to_token))
          \/ WEB3_AVAILABLE /\ call.chain \notin rpcs
    \/ call.op = "open_position" /\ RIsZero(call.collateral_amount)
    \/ /\ call.op = "create_trading_plan"
       /\ RIsZero(call.collateral_usd) \/ RIsZero(call.size_usd)
    \/ /\ call.op = "simulate_pnl"
       /\ \/ RIsZero(call.entry_price)
          \/ RIsZero(call.current_price)
          \/ RIsZero(call.collateral_usd)
          \/ RIsZero(call.position_size_usd)

\* every field of the record that a step of the handler computes holds a value
Complete(rec) ==
    /\ rec.type = RecordTypeOf(call.op)
    /\ call.op \in OrderOps =>
          /\ rec.status \in {"created", "pending"}
          /\ rec.debug_mode \in BOOLEAN
          /\ rec.timestamp \in Timestamps
    /\ call.op \in MarketOps => ~Falsy(rec.market_address)
    /\ call.op = "create_swap_order" =>
          /\ ~Falsy(rec.from_token_address)
          /\ ~Falsy(rec.to_token_address)
          /\ ~Falsy(rec.exchange_router)
    /\ call.op = "open_position" =>
          /\ rec.leverage = Format1f(RDiv(call.size_usd, call.collateral_amount))
          /\ rec.estimated_fees.total_fees =
                 RAdd(rec.estimated_fees.opening_fee, rec.estimated_fees.price_impact)
    /\ call.op = "create_trading_plan" =>
          /\ rec.trading_plan.leverage # NoneNumber
          /\ rec.risk_analysis.leverage_risk \in {"LOW", "MEDIUM", "HIGH"}
          /\ rec.risk_analysis.position_size_risk \in {"LOW", "MEDIUM", "HIGH"}
          /\ rec.risk_analysis.collateral_ratio # NoneNumber
    /\ call.op = "simulate_pnl" =>
          /\ rec.position.leverage # NoneNumber
          /\ rec.pnl.unrealized_pnl_usd # NoneNumber
          /\ rec.pnl.unrealized_pnl_pct # NoneNumber
          /\ rec.risk.liquidation_price # NoneNumber
          /\ rec.risk.distance_to_liquidation_pct # NoneNumber
          /\ rec.risk.risk_level \in {"LOW", "MEDIUM", "HIGH", "CRITICAL"}
    /\ call.op = "estimate_trading_costs" =>
          /\ rec.estimated_costs.total_estimated_cost_usd # NoneNumber
          /\ rec.collateral_requirements.minimum_collateral_usd # NoneNumber

-----------------------------------------------------------------------------
(* Properties of the calculators *)

EstimateOps == {"estimate_trading_costs", "simple.estimate_trading_costs"}

\* the price impact of a position size, as the specification states it
PriceImpactStep(size_usd) ==
    IF RLt(size_usd, R(100000)) THEN RMul(size_usd, Rat(1, 10000))
    ELSE RMul(size_usd, Rat(5, 10000))

\* C11: for every size_usd > 0 the price impact estimate_trading_costs reports
\* is size * 0.0001 below 100000 and size * 0.0005 at or above 100000, to two
\* decimals; at exactly 100000 it is 50.00.
C11_PriceImpactStep ==
    (call.op \in EstimateOps /\ RLt(R(0), call.size_usd)) =>
        /\ result.status = "ok"
        /\ result.record.estimated_costs.estimated_price_impact_usd =
               Round2(PriceImpactStep(call.size_usd))
        /\ call.size_usd = R(100000) =>
               result.record.estimated_costs.estimated_price_impact_usd = R(50)

\* an estimate for a size of exactly 100000
C11_Witness ==
    /\ call.op = "estimate_trading_costs"
    /\ call.size_usd = R(100000)
    /\ result.status = "ok"
    /\ result.record.estimated_costs.estimated_price_impact_usd = R(50)

\* the three amounts an estimate reports, added up
SumOfReported(costs) ==
    RAdd(RAdd(costs.opening_fee_usd, costs.estimated_price_impact_usd),
         costs.estimated_gas_cost_usd)

\* C12 as stated: the reported total equals the sum of the three reported
\* two-decimal amounts, for every size and chain.
C12_TotalIsSumOfReported ==
    (call.op = "estimate_trading_costs" /\ result.status = "ok") =>
        result.record.estimated_costs.total_estimated_cost_usd =
            SumOfReported(result.record.estimated_costs)

\* C12: the reported total is the unrounded sum of opening fee, price impact
\* and gas cost rounded to two decimals; it lies within 0.01 of the sum of the
\* three reported amounts.
C12_TotalIsRoundedSum ==
    (call.op = "estimate_trading_costs" /\ result.status = "ok") =>
        LET costs == result.record.estimated_costs
        IN  /\ costs.total_estimated_cost_usd =
                   Round2(RAdd(RAdd(RMul(call.size_usd, Rat(6, 10000)),
                                    PriceImpactStep(call.size_usd)),
                               costs.estimated_gas_cost_usd))
            /\ RLe(RAbs(RSub(costs.total_estimated_cost_usd, SumOfReported(costs))),
                   Rat(1, 100))

\* size 8 on arbitrum: 0.0048 + 0.0008 + 15 is reported as 0.0, 0.0, 15 and a
\* total of 15.01
C12_Witness ==
    /\ call.op = "estimate_trading_costs"
    /\ call.size_usd = R(8)
    /\ call.chain = "arbitrum"
    /\ result.status = "ok"
    /\ result.record.estimated_costs.total_estimated_cost_usd = Rat(1501, 100)
    /\ SumOfReported(result.record.estimated_costs) = R(15)

\* C13: for every size_usd, estimate_trading_costs reports an opening fee of
\* size * 0.0006, a minimum collateral of size * 0.01 and a recommended
\* collateral of size * 0.10, each to two decimals; size 1000 on arbitrum
\* gives 0.6, 0.1, 15, 15.7, 10.0 and 100.0.
C13_FeeAndCollateral ==
    (call.op = "estimate_trading_costs") =>
        LET rec == result.record
        IN  /\ result.status = "ok"
            /\ rec.estimated_costs.opening_fee_usd =
                   Round2(RMul(call.size_usd, Rat(6, 10000)))
            /\ rec.collateral_requirements.minimum_collateral_usd =
                   Round2(RMul(call.size_usd, Rat(1, 100)))
            /\ rec.collateral_requirements.recommended_collateral_usd =
                   Round2(RMul(call.size_usd, Rat(10, 100)))
            /\ (call.size_usd = R(1000) /\ call.chain = "arbitrum") =>
                   /\ rec.estimated_costs.opening_fee_usd = Rat(6, 10)
                   /\ rec.estimated_costs.estimated_price_impact_usd = Rat(1, 10)
                   /\ rec.estimated_costs.estimated_gas_cost_usd = R(15)
                   /\ rec.estimated_costs.total_estimated_cost_usd = Rat(157, 10)
                   /\ rec.collateral_requirements.minimum_collateral_usd = R(10)
                   /\ rec.collateral_requirements.recommended_collateral_usd = R(100)

\* the estimate for size 1000 on arbitrum
C13_Witness ==
    /\ call.op = "estimate_trading_costs"
    /\ call.size_usd = R(1000)
    /\ call.chain = "arbitrum"
    /\ result.status = "ok"
    /\ result.record.estimated_costs.total_estimated_cost_usd = Rat(157, 10)

\* the operations that report a gas cost
GasOps == EstimateOps \cup {"add_liquidity", "remove_liquidity"}

\* the gas cost a returned record reports
GasOf(c, rec) ==
    IF c.op \in EstimateOps THEN rec.estimated_costs.estimated_gas_cost_usd
    ELSE rec.estimated_fees.gas_fee

\* C14: every operation that reports a gas cost reports the same constant for
\* the same chain identifier, whatever the size, market or direction: 15 for
\* the high-fee chains arbitrum and arbitrum_sepolia, 2 for the others.
C14_GasPerChain ==
    (call.op \in GasOps /\ result.status = "ok") =>
        GasOf(call, result.record) =
            IF call.chain \in {"arbitrum", "arbitrum_sepolia"} THEN R(15) ELSE R(2)

PlanOps == {"create_trading_plan", "simple.create_trading_plan"}

\* a number was supplied and is strictly positive
Positive(x) == x # NoneNumber /\ RLt(R(0), x)

\* a trading plan was asked for with a positive size, collateral and entry price
PositivePlanCall ==
    /\ call.op \in PlanOps
    /\ Positive(call.size_usd)
    /\ Positive(call.collateral_usd)
    /\ Positive(call.entry_price)

\* entry * (1 - (collateral / size) * 0.9) for a long position,
\* entry * (1 + (collateral / size) * 0.9) for a short one
StatedLiquidationPrice(is_long, entry, size, collateral) ==
    IF is_long
    THEN RMul(entry, RSub(R(1), RMul(RDiv(collateral, size), Rat(9, 10))))
    ELSE RMul(entry, RAdd(R(1), RMul(RDiv(collateral, size), Rat(9, 10))))

IsLong(direction) == Lower(direction) = <<"l","o","n","g">>

\* C15: for every positive entry price, size and collateral the liquidation
\* price create_trading_plan reports is entry * (1 - (collateral/size) * 0.9)
\* for a Long and entry * (1 + (collateral/size) * 0.9) for a Short, to two
\* decimals; entry 2000, size 1000, collateral 100, Long gives leverage 10 and
\* a liquidation price of 1820.0.
C15_PlanLiquidationPrice ==
    (PositivePlanCall /\ call.op = "create_trading_plan") =>
        /\ result.status = "ok"
        /\ result.record.trading_plan.estimated_liquidation_price =
               Round2(StatedLiquidationPrice(IsLong(call.direction), call.entry_price,
                                             call.size_usd, call.collateral_usd))
        /\ (/\ IsLong(call.direction)
            /\ call.entry_price = R(2000)
            /\ call.size_usd = R(1000)
            /\ call.collateral_usd = R(100)) =>
               /\ result.record.trading_plan.leverage = R(10)
               /\ result.record.trading_plan.estimated_liquidation_price = R(1820)

\* C16: a trading plan carries a null liquidation price exactly when no entry
\* price is supplied; with a positive entry price, size and collateral it
\* carries a number, for both directions and every collateral/size ratio.
C16_NullIffNoEntry ==
    (call.op \in PlanOps /\ result.status = "ok") =>
        /\ call.entry_price = NoneNumber =>
               result.record.trading_plan.estimated_liquidation_price = NoneNumber
        /\ PositivePlanCall =>
               result.record.trading_plan.estimated_liquidation_price # NoneNumber

\* a plan or a simulation was asked for with positive figures
PositiveLiquidationCall ==
    \/ PositivePlanCall /\ call.op = "create_trading_plan"
    \/ /\ call.op = "simulate_pnl"
       /\ Positive(call.entry_price)
       /\ Positive(call.current_price)
       /\ Positive(call.position_size_usd)
       /\ Positive(call.collateral_usd)

\* the liquidation price the handler of the call in flight computes
ComputedLiquidationPrice ==
    IF call.op = "create_trading_plan"
    THEN plan_liquidation_price(IsLong(call.direction), call.entry_price,
                                call.size_usd, call.collateral_usd)
    ELSE simulate_liquidation_price(IsLong(call.side), call.entry_price,
                                    RDiv(call.position_size_usd, call.collateral_usd))

\* the liquidation price the returned record reports
ReportedLiquidationPrice ==
    IF call.op = "create_trading_plan"
    THEN result.record.trading_plan.estimated_liquidation_price
    ELSE result.record.risk.liquidation_price

SideOf(c) == IF c.op \in PlanOps THEN c.direction ELSE c.side

PositivePnlCall ==
    /\ call.op = "simulate_pnl"
    /\ Positive(call.entry_price)
    /\ Positive(call.current_price)
    /\ Positive(call.position_size_usd)
    /\ Positive(call.collateral_usd)

\* -1, 0 or 1 as x is negative, zero or positive
Sign(x) == IF x[1] < 0 THEN -1 ELSE IF x[1] = 0 THEN 0 ELSE 1

\* the pnl_usd the handler computes for the call in flight
ComputedPnlUsd ==
    simulate_pnl_usd(call.position_size_usd,
        simulate_price_change_pct(IsLong(call.side), call.entry_price,
                                  call.current_price))

\* C18: for every valid simulate_pnl input with a positive size, pnl_usd of a
\* Long is positive when current_price > entry_price and negative when it is
\* below; for a Short the inequalities are reversed; pnl_usd is 0 when the
\* prices are equal.  The reported two-decimal PnL never has the opposite sign.
C18_PnlSign ==
    PositivePnlCall =>
        LET move == Sign(RSub(call.current_price, call.entry_price))
            expected == IF IsLong(call.side) THEN move ELSE -move
        IN  /\ result.status = "ok"
            /\ Sign(ComputedPnlUsd) = expected
            /\ Sign(result.record.pnl.unrealized_pnl_usd) \in {0, expected}

\* a short position entered at 2000 with the price at 2100 loses 5.0
C18_Witness ==
    /\ call.op = "simulate_pnl"
    /\ ~IsLong(call.side)
    /\ call.entry_price = R(2000)
    /\ call.current_price = R(2100)
    /\ call.position_size_usd = R(100)
    /\ result.status = "ok"
    /\ result.record.pnl.unrealized_pnl_usd = R(-5)

\* C19: simulate_pnl reports pnl_usd = size * price change and
\* pnl_pct = pnl_usd / collateral * 100, relative to collateral and not to
\* size; entry 2000, current 2100, size 100, collateral 20, Long gives a price
\* change of 5.0%, a pnl_usd of 5.0 and a pnl_pct of 25.0.
C19_PnlFormulas ==
    PositivePnlCall =>
        LET change == IF IsLong(call.side)
                      THEN RDiv(RSub(call.current_price, call.entry_price),
                                call.entry_price)
                      ELSE RDiv(RSub(call.entry_price, call.current_price),
                                call.entry_price)
            pnl == RMul(call.position_size_usd, change)
        IN  /\ result.status = "ok"
            /\ result.record.pnl.price_change_pct = Round2(RMul(change, R(100)))
            /\ result.record.pnl.unrealized_pnl_usd = Round2(pnl)
            /\ result.record.pnl.unrealized_pnl_pct =
                   Round2(RMul(RDiv(pnl, call.collateral_usd), R(100)))
            /\ (/\ IsLong(call.side)
                /\ call.entry_price = R(2000)
                /\ call.current_price = R(2100)
                /\ call.position_size_usd = R(100)
                /\ call.collateral_usd = R(20)) =>
                   /\ result.record.pnl.price_change_pct = R(5)
                   /\ result.record.pnl.unrealized_pnl_usd = R(5)
                   /\ result.record.pnl.unrealized_pnl_pct = R(25)

\* the simulation of the specification's example
C19_Witness ==
    /\ call.op = "simulate_pnl"
    /\ IsLong(call.side)
    /\ call.entry_price = R(2000)
    /\ call.current_price = R(2100)
    /\ call.position_size_usd = R(100)
    /\ call.collateral_usd = R(20)
    /\ result.status = "ok"
    /\ result.record.pnl.unrealized_pnl_pct = R(25)

\* the distance to liquidation of the call in flight, in percent of the
\* current price
DistanceToLiquidation ==
    LET liq == StatedLiquidationPrice(IsLong(call.side), call.entry_price,
                                      call.position_size_usd, call.collateral_usd)
    IN  RMul(RDiv(RAbs(RSub(call.current_price, liq)), call.current_price), R(100))

\* the tiers from the safest to the most exposed
TierRank(tier) ==
    CASE tier = "LOW" -> 0
      [] tier = "MEDIUM" -> 1
      [] tier = "HIGH" -> 2
      [] tier = "CRITICAL" -> 3

\* the distances at which the tier changes, and distances beside them
TierDistances ==
    {R(0), Rat(499, 100), R(5), Rat(501, 100), Rat(1499, 100), R(15),
     Rat(1501, 100), Rat(2999, 100), R(30), Rat(3001, 100), R(100)}

\* C20: the risk tier of a simulation is Critical for d < 5, High for
\* 5 <= d < 15, Medium for 15 <= d < 30 and Low for d >= 30, d being the
\* distance to liquidation; a smaller distance never yields a safer tier, and
\* crossing one boundary moves the tier by one step.
C20_RiskTier ==
    PositivePnlCall =>
        LET d == DistanceToLiquidation
        IN  /\ result.status = "ok"
            /\ result.record.risk.risk_level =
                   IF RLt(d, R(5)) THEN "CRITICAL"
                   ELSE IF RLt(d, R(15)) THEN "HIGH"
                   ELSE IF RLt(d, R(30)) THEN "MEDIUM"
                   ELSE "LOW"
            /\ d = R(5) => result.record.risk.risk_level = "HIGH"
            /\ d = R(15) => result.record.risk.risk_level = "MEDIUM"
            /\ d = R(30) => result.record.risk.risk_level = "LOW"
            /\ \A e \in TierDistances :
                   RLe(e, d) => TierRank(risk_level_of(e)) >=
                                    TierRank(result.record.risk.risk_level)
            /\ \A e \in {R(5), R(15), R(30)} :
                   TierRank(risk_level_of(RSub(e, Rat(1, 100)))) =
                       TierRank(risk_level_of(e)) + 1

\* a long position of leverage 9 entered at 22610 is liquidated at 20349,
\* exactly 5% below a current price of 21420
C20_Witness ==
    /\ call.op = "simulate_pnl"
    /\ IsLong(call.side)
    /\ call.entry_price = R(22610)
    /\ call.current_price = R(21420)
    /\ call.position_size_usd = R(90)
    /\ call.collateral_usd = R(10)
    /\ result.status = "ok"
    /\ DistanceToLiquidation = R(5)
    /\ result.record.risk.risk_level = "HIGH"

\* C21: in a trading plan leverage_risk is HIGH iff leverage > 20, MEDIUM iff
\* 10 < leverage <= 20 and LOW otherwise; position_size_risk is HIGH iff
\* size > 50000, MEDIUM iff 10000 < size <= 50000 and LOW otherwise, whatever
\* the collateral is.
C21_PlanRiskTiers ==
    (call.op \in PlanOps /\ Positive(call.size_usd) /\ Positive(call.collateral_usd)) =>
        LET leverage == RDiv(call.size_usd, call.collateral_usd)
            risk == result.record.risk_analysis
        IN  /\ result.status = "ok"
            /\ risk.leverage_risk = "HIGH" <=> RLt(R(20), leverage)
            /\ risk.leverage_risk = "MEDIUM" <=>
                   (RLt(R(10), leverage) /\ RLe(leverage, R(20)))
            /\ risk.leverage_risk = "LOW" <=> RLe(leverage, R(10))
            /\ risk.position_size_risk = "HIGH" <=> RLt(R(50000), call.size_usd)
            /\ risk.position_size_risk = "MEDIUM" <=>
                   (RLt(R(10000), call.size_usd) /\ RLe(call.size_usd, R(50000)))
            /\ risk.position_size_risk = "LOW" <=> RLe(call.size_usd, R(10000))

\* a plan of leverage exactly 20
C21_Witness ==
    /\ call.op = "create_trading_plan"
    /\ call.size_usd = R(100)
    /\ call.collateral_usd = R(5)
    /\ result.status = "ok"
    /\ result.record.risk_analysis.leverage_risk = "MEDIUM"
    /\ result.record.risk_analysis.position_size_risk = "LOW"

-----------------------------------------------------------------------------
(* Properties of the shared state *)

\* C22: the core operations share no mutable state.  A step that runs an
\* order-building or calculator call modifies no process-wide state, and a
\* step that runs another caller's setup_wallet leaves the outcome of every
\* order-building call unchanged: cancel_order with the same arguments returns
\* after the step what it would have returned before it.
C22_NoSharedState ==
    [][/\ call'.op \in CoreOps =>
              /\ config_data' = config_data
              /\ gmx_contracts' = gmx_contracts
              /\ w3_instances' = w3_instances
       /\ call'.op = "setup_wallet" =>
              \A order_key \in OrderKeyInputs, chain \in ChainInputs,
                 debug_mode \in BOOLEAN, ts \in Timestamps :
                  cancel_order_result(config_data', order_key, chain, debug_mode, ts)
                      = cancel_order_result(config_data, order_key, chain, debug_mode, ts)]_vars

\* the operations that take a market symbol and a direction string
DirectionOps == {"open_position", "create_trading_plan", "simulate_pnl"}

\* the market symbol a returned record carries, without the "/USD" a plan
\* appends to it
RecordMarketOf(c, rec) ==
    IF c.op = "create_trading_plan"
    THEN SubSeq(rec.trading_plan.market, 1, Len(rec.trading_plan.market) - 4)
    ELSE rec.market

\* the direction a returned record carries
RecordSideOf(c, rec) ==
    IF c.op = "create_trading_plan" THEN rec.trading_plan.direction
    ELSE IF c.op = "simulate_pnl" THEN rec.position.side
    ELSE rec.side

\* the values a plan or a simulation computes from its figures and direction
ComputedValues(rec) ==
    IF rec.type = "trading_plan"
    THEN <<rec.trading_plan.leverage, rec.trading_plan.estimated_liquidation_price,
           rec.risk_analysis>>
    ELSE <<rec.position.leverage, rec.pnl, rec.risk>>

\* what the calculator of the call in flight returns for the same figures and
\* the direction string d
SameCallWithDirection(d) ==
    IF call.op = "create_trading_plan"
    THEN create_trading_plan_result(call.market, d, call.size_usd,
             call.collateral_usd, call.entry_price, call.stop_loss, call.take_profit)
    ELSE simulate_pnl_result(call.market, d, call.entry_price, call.current_price,
             call.position_size_usd, call.collateral_usd, 0)

\* C23: direction strings are read case-insensitively and market symbols are
\* upper-cased: a returned record carries the market symbol and the direction
\* in upper case, and a plan or simulation computes the same values as the
\* call with the lower-cased direction string.
C23_CaseNormalised ==
    (call.op \in DirectionOps /\ result.status = "ok") =>
        /\ RecordMarketOf(call, result.record) = Upper(call.market)
        /\ RecordSideOf(call, result.record) = Upper(SideOf(call))
        /\ call.op # "open_position" =>
               ComputedValues(result.record) =
                   ComputedValues(SameCallWithDirection(Lower(SideOf(call))).record)

\* the current price of the simulation in flight has reached or passed the
\* liquidation price of the position
PastLiquidation ==
    LET liq == StatedLiquidationPrice(IsLong(call.side), call.entry_price,
                                      call.position_size_usd, call.collateral_usd)
    IN  IF IsLong(call.side) THEN RLe(call.current_price, liq)
        ELSE RLe(liq, call.current_price)

\* C25: a simulated position whose current price has reached or passed its
\* liquidation price is classified CRITICAL, however far past it the price is.
C25_PastLiquidationIsCritical ==
    (PositivePnlCall /\ PastLiquidation) =>
        /\ result.status = "ok"
        /\ result.record.risk.risk_level = "CRITICAL"

\* C26: the estimated_fees of an increase order agree with the cost estimator:
\* opening_fee and price_impact are the unrounded opening fee and price impact
\* estimate_trading_costs computes for the same size, sizes at or above 100000
\* included, and total_fees is their sum.
C26_OrderFeesMatchEstimator ==
    (call.op = "open_position" /\ result.status = "ok") =>
        LET fees == result.record.estimated_fees
        IN  /\ fees.opening_fee = estimate_opening_fee(call.size_usd)
            /\ fees.price_impact = estimate_price_impact(call.size_usd)
            /\ fees.total_fees = RAdd(fees.opening_fee, fees.price_impact)

\* C27: a step in which setup_wallet returns its "Private key and wallet
\* address must be provided" error leaves the stored private key and wallet
\* address as they were.
C27_FailedSetupKeepsConfig ==
    [][(call'.op = "setup_wallet" /\ result'.error = "wallet_must_be_provided") =>
           config_data' = config_data]_vars

\* C28: whenever get_wallet_info reports "Ready for GMX trading", an
\* order-producing call made in that state does not fail with the
\* wallet-not-configured error.
C28_ReadyMeansOrdersPass ==
    (call.op = "get_wallet_info" /\ result.status = "ok") =>
        /\ result.record.status = "Ready for GMX trading"
        /\ \A order_key \in OrderKeyInputs, chain \in ChainInputs, ts \in Timestamps :
               cancel_order_result(config_data, order_key, chain, TRUE, ts).error
                   # "wallet_not_configured"

\* C29: once both the private key and the wallet address are set, every step
\* leaves both set, whatever arguments a setup_wallet call passes or omits,
\* and no order-producing call fails with the wallet-not-configured error.
C29_WalletStaysConfigured ==
    [][(~WalletMissing) =>
           /\ ~WalletMissing'
           /\ call'.op \in OrderOps => result'.error # "wallet_not_configured"]_vars

\* setup_wallet called with no key and no address on a configured wallet
C29_Witness ==
    /\ call.op = "setup_wallet"
    /\ Falsy(call.private_key)
    /\ Falsy(call.wallet_address)
    /\ result.status = "ok"
    /\ ~WalletMissing

\* a plan or a simulation was asked for with positive figures and a direction
\* string that is no case variant of "long"
NotLongCall ==
    /\ \/ PositivePlanCall
       \/ PositivePnlCall
    /\ Lower(SideOf(call)) # <<"l","o","n","g">>

\* entry * (1 + (collateral / size) * 0.9)
ShortLiquidationPrice(entry, size, collateral) ==
    RMul(entry, RAdd(R(1), RMul(RDiv(collateral, size), Rat(9, 10))))

\* C30: simulate_pnl and create_trading_plan compute every direction string
\* that is no case variant of "long" as a Short position, without an error,
\* strings that are neither "long" nor "short" included: the liquidation price
\* and the PnL are those of the Short formulas.
C30_NotLongIsShort ==
    NotLongCall =>
        /\ result.status = "ok"
        /\ call.op \in PlanOps =>
               result.record.trading_plan.estimated_liquidation_price =
                   Round2(ShortLiquidationPrice(call.entry_price, call.size_usd,
                                                call.collateral_usd))
        /\ call.op = "simulate_pnl" =>
               /\ result.record.risk.liquidation_price =
                      Round2(ShortLiquidationPrice(call.entry_price,
                                 call.position_size_usd, call.collateral_usd))
               /\ result.record.pnl.unrealized_pnl_usd =
                      Round2(RMul(call.position_size_usd,
                                  RDiv(RSub(call.entry_price, call.current_price),
                                       call.entry_price)))

\* a simulation with the direction "buy": the position loses when the price
\* rises
C30_Witness ==
    /\ call.op = "simulate_pnl"
    /\ call.side = <<"b","u","y">>
    /\ call.entry_price = R(2000)
    /\ call.current_price = R(2100)
    /\ call.position_size_usd = R(100)
    /\ call.collateral_usd = R(20)
    /\ result.status = "ok"
    /\ result.record.pnl.unrealized_pnl_usd = R(-5)
    /\ result.record.risk.liquidation_price = R(2360)

-----------------------------------------------------------------------------
(* The liquidation price in the arithmetic of the code.  Python floats are   *)
(* IEEE-754 binary64 numbers: every operation returns the exact result       *)
(* rounded to 53 significant bits, ties to even.  A natural number of any    *)
(* size is a sequence of limbs, least significant first; a positive float is *)
(* a pair <<m, e>> of a 53-bit natural m and an exponent e, standing for     *)
(* m * 2^e.                                                                  *)

Limb == 32768
LimbBits == 15

RECURSIVE Pow2(_)
Pow2(k) == IF k = 0 THEN 1 ELSE 2 * Pow2(k - 1)

RECURSIVE BitLenInt(_)
BitLenInt(n) == IF n = 0 THEN 0 ELSE 1 + BitLenInt(n \div 2)

RECURSIVE NFromInt(_)
NFromInt(n) == IF n = 0 THEN << >> ELSE <<n % Limb>> \o NFromInt(n \div Limb)

RECURSIVE NToInt(_)
NToInt(a) == IF a = << >> THEN 0 ELSE a[1] + Limb * NToInt(Tail(a))

\* a without its leading zero limbs
RECURSIVE NTrim(_)
NTrim(a) == IF Len(a) > 0 /\ a[Len(a)] = 0 THEN NTrim(SubSeq(a, 1, Len(a) - 1)) ELSE a

NDigit(a, i) == IF i <= Len(a) THEN a[i] ELSE 0

RECURSIVE NAddFrom(_, _, _, _)
NAddFrom(a, b, i, carry) ==
    IF i > Len(a) /\ i > Len(b)
    THEN IF carry = 0 THEN << >> ELSE <<carry>>
    ELSE <<(NDigit(a, i) + NDigit(b, i) + carry) % Limb>>
             \o NAddFrom(a, b, i + 1, (NDigit(a, i) + NDigit(b, i) + carry) \div Limb)

NAdd(a, b) == NAddFrom(a, b, 1, 0)

RECURSIVE NSubFrom(_, _, _, _)
NSubFrom(a, b, i, borrow) ==
    IF i > Len(a) THEN << >>
    ELSE <<(a[i] - NDigit(b, i) - borrow + Limb) % Limb>>
             \o NSubFrom(a, b, i + 1, IF a[i] - NDigit(b, i) - borrow < 0 THEN 1 ELSE 0)

\* a - b for a >= b
NSub(a, b) == NTrim(NSubFrom(a, b, 1, 0))

RECURSIVE NCmpFrom(_, _, _)
NCmpFrom(a, b, i) ==
    IF i = 0 THEN 0
    ELSE IF a[i] < b[i] THEN -1
    ELSE IF a[i] > b[i] THEN 1
    ELSE NCmpFrom(a, b, i - 1)

\* -1, 0 or 1 as a is below, equal to or above b
NCmp(a, b) ==
    IF Len(a) < Len(b) THEN -1
    ELSE IF Len(a) > Len(b) THEN 1
    ELSE NCmpFrom(a, b, Len(a))

RECURSIVE NMulSmallFrom(_, _, _, _)
NMulSmallFrom(a, k, i, carry) ==
    IF i > Len(a)
    THEN IF carry = 0 THEN << >> ELSE <<carry>>
    ELSE <<(a[i] * k + carry) % Limb>>
             \o NMulSmallFrom(a, k, i + 1, (a[i] * k + carry) \div Limb)

\* a * k for 0 <= k < Limb
NMulSmall(a, k) == IF k = 0 THEN << >> ELSE NMulSmallFrom(a, k, 1, 0)

NShlLimbs(a, n) == IF a = << >> THEN << >> ELSE [i \in 1..n |-> 0] \o a

\* a * 2^k
NShl(a, k) == NShlLimbs(NMulSmall(a, Pow2(k % LimbBits)), k \div LimbBits)

RECURSIVE NMulFrom(_, _, _)
NMulFrom(a, b, i) ==
    IF i > Len(b) THEN << >>
    ELSE NAdd(NShlLimbs(NMulSmall(a, b[i]), i - 1), NMulFrom(a, b, i + 1))

NMul(a, b) == NMulFrom(a, b, 1)

RECURSIVE NDivSmallFrom(_, _, _, _)
NDivSmallFrom(a, d, i, rem) ==
    IF i = 0 THEN << >>
    ELSE NDivSmallFrom(a, d, i - 1, (rem * Limb + a[i]) % d)
             \o <<(rem * Limb + a[i]) \div d>>

\* a \div d for 0 < d < Limb
NDivSmall(a, d) == NTrim(NDivSmallFrom(a, d, Len(a), 0))

\* a \div 2^k
NShr(a, k) ==
    IF k \div LimbBits >= Len(a) THEN << >>
    ELSE NDivSmall(SubSeq(a, k \div LimbBits + 1, Len(a)), Pow2(k % LimbBits))

NBitLen(a) ==
    IF a = << >> THEN 0 ELSE LimbBits * (Len(a) - 1) + BitLenInt(a[Len(a)])

NIsOdd(a) == a # << >> /\ a[1] % 2 = 1

\* a / 2^k rounded to the nearest natural, ties to even
NRoundShr(a, k) ==
    IF k = 0 THEN a
    ELSE LET q == NShr(a, k)
             c == NCmp(NSub(a, NShl(q, k)), NShl(<<1>>, k - 1))
         IN  IF c > 0 \/ (c = 0 /\ NIsOdd(q)) THEN NAdd(q, <<1>>) ELSE q

\* one limb of a quotient: <<digit, remainder>> of rem by b * Limb^k, the bits
\* i..0 of the digit being added to digit
RECURSIVE NDivDigit(_, _, _, _, _)
NDivDigit(rem, b, k, i, digit) ==
    IF i < 0 THEN <<digit, rem>>
    ELSE IF NCmp(NShl(b, LimbBits * k + i), rem) <= 0
    THEN NDivDigit(NSub(rem, NShl(b, LimbBits * k + i)), b, k, i - 1, digit + Pow2(i))
    ELSE NDivDigit(rem, b, k, i - 1, digit)

\* <<quotient, remainder>> of rem by b, the limbs k..0 of the quotient being
\* put in front of q
RECURSIVE NDivLimbs(_, _, _, _)
NDivLimbs(rem, b, k, q) ==
    IF k < 0 THEN <<NTrim(q), rem>>
    ELSE LET dr == NDivDigit(rem, b, k, LimbBits - 1, 0)
         IN  NDivLimbs(dr[2], b, k - 1, <<dr[1]>> \o q)

\* <<a \div b, a % b>> for b > 0
NDivMod(a, b) == NDivLimbs(a, b, Len(a) - Len(b), << >>)

Mantissa == 53

\* the float nearest to n * 2^e, ties to even
FRound(n, e) ==
    IF NBitLen(n) <= Mantissa
    THEN <<NShl(n, Mantissa - NBitLen(n)), e - (Mantissa - NBitLen(n))>>
    ELSE LET k == NBitLen(n) - Mantissa
             q == NRoundShr(n, k)
         IN  IF NBitLen(q) > Mantissa THEN <<NShr(q, 1), e + k + 1>>
             ELSE <<q, e + k>>

\* float(i) for a natural i
FFromInt(i) == FRound(NFromInt(i), 0)

\* x * y
FMul(x, y) == FRound(NMul(x[1], y[1]), x[2] + y[2])

\* x / y: 57 or 58 quotient bits, the last of them set when the division
\* leaves a remainder, rounded to 53
FDiv(x, y) ==
    LET qr == NDivMod(NShl(x[1], Mantissa + 3), y[1])
        sticky == IF qr[2] = << >> THEN << >> ELSE <<1>>
    IN  FRound(NAdd(NShl(qr[1], 1), sticky), x[2] - y[2] - (Mantissa + 4))

FMinExp(x, y) == IF x[2] < y[2] THEN x[2] ELSE y[2]

\* x + y
FAdd(x, y) ==
    FRound(NAdd(NShl(x[1], x[2] - FMinExp(x, y)), NShl(y[1], y[2] - FMinExp(x, y))),
           FMinExp(x, y))

\* x - y for x >= y
FSub(x, y) ==
    FRound(NSub(NShl(x[1], x[2] - FMinExp(x, y)), NShl(y[1], y[2] - FMinExp(x, y))),
           FMinExp(x, y))

\* round(x, 2) in hundredths: Python rounds the exact value of the float
FRound2Hundredths(x) ==
    IF x[2] >= 0 THEN NToInt(NShl(NMulSmall(x[1], 100), x[2]))
    ELSE NToInt(NRoundShr(NMulSmall(x[1], 100), -x[2]))

\* the literal 0.9
F09 == FDiv(FFromInt(9), FFromInt(10))

\* create_trading_plan: entry_price * (1 -/+ (collateral_usd / size_usd) * 0.9)
\* for integer figures with collateral_usd < size_usd
plan_liquidation_price_binary64(is_long, entry_price, size_usd, collateral_usd) ==
    LET ratio == FMul(FDiv(FFromInt(collateral_usd), FFromInt(size_usd)), F09)
    IN  IF is_long THEN FMul(FFromInt(entry_price), FSub(FFromInt(1), ratio))
        ELSE FMul(FFromInt(entry_price), FAdd(FFromInt(1), ratio))

\* simulate_pnl: leverage = position_size_usd / collateral_usd, then
\* entry_price * (1 -/+ (liquidation_threshold / leverage))
simulate_liquidation_price_binary64(is_long, entry_price, position_size_usd, collateral_usd) ==
    LET leverage == FDiv(FFromInt(position_size_usd), FFromInt(collateral_usd))
        ratio == FDiv(F09, leverage)
    IN  IF is_long THEN FMul(FFromInt(entry_price), FSub(FFromInt(1), ratio))
        ELSE FMul(FFromInt(entry_price), FAdd(FFromInt(1), ratio))

\* integer figures with every collateral below every size; among them entry
\* 49528, size 11808, collateral 4323, whose liquidation price lies next to a
\* half cent
FloatSides == {<<"l","o","n","g">>, <<"s","h","o","r","t">>}
FloatEntries == {1, 2000, 21965, 49528}
FloatSizes == {11808, 12000, 19100}
FloatCollaterals == {7, 4323, 11191}

\* create_trading_plan, lines 261-271 and 283: the liquidation price it
\* computes and the one it reports
create_trading_plan_binary64 ==
    /\ call = NoCall
    /\ \E direction \in FloatSides, entry_price \in FloatEntries,
          size_usd \in FloatSizes, collateral_usd \in FloatCollaterals :
          LET liquidation_price ==
                  plan_liquidation_price_binary64(is_long_of(direction),
                      entry_price, size_usd, collateral_usd)
          IN  /\ call' = [op |-> "create_trading_plan.liquidation_price",
                          direction |-> direction, entry_price |-> entry_price,
                          size_usd |-> size_usd, collateral_usd |-> collateral_usd]
              /\ result' = Ok([type |-> "liquidation_price",
                               liquidation_price |-> liquidation_price,
                               estimated_liquidation_price |->
                                   Rat(FRound2Hundredths(liquidation_price), 100)])
    /\ UNCHANGED <<config_data, gmx_contracts, w3_instances, WEB3_AVAILABLE>>

\* simulate_pnl, lines 493, 505-511 and 542: the liquidation price it computes
\* and the one it reports
simulate_pnl_binary64 ==
    /\ call = NoCall
    /\ \E side \in FloatSides, entry_price \in FloatEntries,
          position_size_usd \in FloatSizes, collateral_usd \in FloatCollaterals :
          LET liquidation_price ==
                  simulate_liquidation_price_binary64(is_long_of(side),
                      entry_price, position_size_usd, collateral_usd)
          IN  /\ call' = [op |-> "simulate_pnl.liquidation_price",
                          direction |-> side, entry_price |-> entry_price,
                          size_usd |-> position_size_usd,
                          collateral_usd |-> collateral_usd]
              /\ result' = Ok([type |-> "liquidation_price",
                               liquidation_price |-> liquidation_price,
                               estimated_liquidation_price |->
                                   Rat(FRound2Hundredths(liquidation_price), 100)])
    /\ UNCHANGED <<config_data, gmx_contracts, w3_instances, WEB3_AVAILABLE>>

NextFloat ==
    \/ create_trading_plan_binary64
    \/ simulate_pnl_binary64
    \/ Deliver

SpecFloat == Init /\ [][NextFloat]_vars

\* the liquidation price the other of the two handlers computes for the
\* figures of the call in flight
OtherLiquidationPrice ==
    IF call.op = "create_trading_plan.liquidation_price"
    THEN simulate_liquidation_price_binary64(is_long_of(call.direction),
             call.entry_price, call.size_usd, call.collateral_usd)
    ELSE plan_liquidation_price_binary64(is_long_of(call.direction),
             call.entry_price, call.size_usd, call.collateral_usd)

\* C24: for every positive entry price, size and collateral and both
\* directions the liquidation price simulate_pnl computes equals the one
\* create_trading_plan computes on the same inputs, and so do the two-decimal
\* prices they report.
C24_SameLiquidationPrice ==
    call.op \in {"create_trading_plan.liquidation_price",
                 "simulate_pnl.liquidation_price"} =>
        /\ result.record.liquidation_price = OtherLiquidationPrice
        /\ result.record.estimated_liquidation_price =
               Rat(FRound2Hundredths(OtherLiquidationPrice), 100)

====
